---- MODULE Spec2Model ----
(***************************************************************************)
(* Model of the action compiler of telegram-go: Client.ExecuteAction and   *)
(* the keyboard builders it calls.  The repository carries two            *)
(* implementations of ExecuteAction:                                      *)
(*   impl = "raw" : src/unnamed/part_001 (parameter map + Client.Call)    *)
(*   impl = "bot" : src/unnamed/part_002 (tgbotapi message structs)       *)
(* Every external call (CallbackSaver, chat action, main send) is logged  *)
(* in `calls` in the order the code issues it.                            *)
(***************************************************************************)
EXTENDS Integers, Sequences, FiniteSets, TLC

(* ---------------------------- bounds ----------------------------------- *)
MaxButs == 3
MaxActions == 1
MaxClock == 1
MaxLayoutLen == 7
MaxCols == 4
MaxTextLen == 4
MaxCodeLen == 7
MaxLinkLen == 6
MaxSpanLen == 6
MaxHashVal == 3
MaxCalls == 3
MaxEscapeLen == 3
MaxStripLen == 4

(* ------------------------- value domains ------------------------------- *)
Impls == {"raw", "bot"}
Streams == {"", "tg_direct", "other"}
Types == {"text", "inline_keyboard", "virtual_keyboard", "sticker"}
SpecialTypes == {"sticker", "dice", "contact", "poll", "game", "venue"}
TextTypes == {"text", "inline_keyboard", "virtual_keyboard", ""}

ButLabels == <<"A", "B", "C", "D", "E", "F", "G", "H">>
ActionPayloads == <<"a1", "a2", "a3", "a4">>
NoPayload == ""
NoToken == -1
NoError == ""
Project == "proj"
UserID == "u1"
TgID == 77

\* stand-ins for the two values int(+Inf) yields on the supported targets
\* (minimum int64 on amd64, maximum int64 on arm64) and for the largest
\* slice length the allocator accepts
IntMin == 0 - 1000000
IntMax == 1000000
MaxAlloc == 1000

Min(a, b) == IF a <= b THEN a ELSE b
Max(a, b) == IF a >= b THEN a ELSE b

(* ------------------------ keyboard data -------------------------------- *)
\* one item of a keyboard row: a button map (isMap) or any other JSON value
Item(isMap, text, hasUrl, cb) ==
    [isMap |-> isMap, text |-> text, hasUrl |-> hasUrl, cb |-> cb]
Row(isList, items) == [isList |-> isList, items |-> items]

NoMarkup ==
    [present |-> FALSE, key |-> "", isList |-> FALSE, rows |-> <<>>,
     resize |-> FALSE, oneTime |-> FALSE]

Markup(key, rows, resize, oneTime) ==
    [present |-> TRUE, key |-> key, isList |-> TRUE, rows |-> rows,
     resize |-> resize, oneTime |-> oneTime]

\* the reply_markup values a caller can put into content.replyMarkup
ReplyMarkups ==
    { NoMarkup,
      \* present, neither inline_keyboard nor keyboard
      [present |-> TRUE, key |-> "", isList |-> FALSE, rows |-> <<>>,
       resize |-> FALSE, oneTime |-> FALSE],
      \* inline_keyboard that is not a list
      [present |-> TRUE, key |-> "inline_keyboard", isList |-> FALSE,
       rows |-> <<>>, resize |-> FALSE, oneTime |-> FALSE],
      \* callback button, URL button / non-list row / non-map item, callback
      Markup("inline_keyboard",
             << Row(TRUE, << Item(TRUE, "X", FALSE, NoToken),
                             Item(TRUE, "Y", TRUE, NoToken) >>),
                Row(FALSE, <<>>),
                Row(TRUE, << Item(FALSE, "s", FALSE, NoToken),
                             Item(TRUE, "Z", FALSE, NoToken) >>) >>,
             FALSE, FALSE),
      \* reply keyboard with a string item and a map item
      Markup("keyboard",
             << Row(TRUE, << Item(FALSE, "K", FALSE, NoToken),
                             Item(TRUE, "L", FALSE, NoToken) >>) >>,
             TRUE, FALSE) }

NoAttachment == [present |-> FALSE, type |-> "", url |-> ""]
Attachments == { NoAttachment, [present |-> TRUE, type |-> "photo", url |-> "u"] }

\* content.columnNum is a *int: <<>> is nil, <<c>> points at c
ColumnNums == { <<>>, <<0 - 2>>, <<0>>, <<2>> }

Actions ==
    [ project : {Project}, userId : {UserID}, tgId : {TgID},
      stream : Streams, type : Types, attachment : Attachments,
      buts : { SubSeq(ButLabels, 1, n) : n \in 0..MaxButs },
      actions : { SubSeq(ActionPayloads, 1, m) : m \in 0..MaxActions },
      replyMarkup : ReplyMarkups, columnNum : ColumnNums,
      sendReaction : BOOLEAN ]

(* --------------------- callback identifier ----------------------------- *)
RECURSIVE Xor(_, _)
Xor(a, b) ==
    IF a = 0 THEN b
    ELSE IF b = 0 THEN a
    ELSE (((a % 2) + (b % 2)) % 2) + 2 * Xor(a \div 2, b \div 2)

\* the 8-byte hash input for clock reading t and index; sha1 and the hex
\* encoding are injective on it, so the token is identified with its input
GenerateCallbackHash(t, index) == Xor(t, index)

\* the clock readings of n successive calls starting no earlier than t0
ClockRuns(n, t0) ==
    { f \in [1..n -> t0..MaxClock] : \A i \in 1..(n - 1) : f[i] <= f[i + 1] }

LastReading(f, n, t0) == IF n = 0 THEN t0 ELSE f[n]

\* data := &CallbackData{Project, UserID, QueryData: hash}; data.Action = Actions[index]
CallbackRecordIndexAsKey(act, hash, index) ==
    [project |-> act.project, userId |-> act.userId, queryData |-> index,
     action |-> IF index < Len(act.actions) THEN act.actions[index + 1]
                ELSE NoPayload]
CallbackRecordFirstAction(act, hash, index) ==
    [project |-> act.project, userId |-> act.userId, queryData |-> hash,
     action |-> IF 0 < Len(act.actions) THEN act.actions[1] ELSE NoPayload]
CallbackRecord(act, hash, index) ==
    [project |-> act.project, userId |-> act.userId, queryData |-> hash,
     action |-> IF index < Len(act.actions) THEN act.actions[index + 1]
                ELSE NoPayload]

(* ------------------------ button layout -------------------------------- *)
\* rowCount := int(math.Ceil(float64(len(buts)) / float64(colNum))): the set
\* of values the conversion can yield.  A zero colNum divides to +Inf, whose
\* conversion to int is implementation-dependent.
RowCount(n, colNum) ==
    IF colNum > 0 THEN { (n + colNum - 1) \div colNum }
    ELSE IF colNum = 0 THEN { IntMin, IntMax }
    ELSE { 0 - (n \div (0 - colNum)) }

\* for j := 0; j < colNum && (i+j) < len(buts); j++ { row = append(row, ...) }
GridRowShort(cells, colNum, i) ==
    [ j \in 1..Max(0, Min(colNum, Len(cells) - i - 1)) |-> cells[i + j] ]
GridRow(cells, colNum, i) ==
    [ j \in 1..Max(0, Min(colNum, Len(cells) - i)) |-> cells[i + j] ]

\* for i := 0; i < len(buts); i += colNum { ...; keyboard = append(keyboard, row) }
RECURSIVE LoopRows(_, _, _)
LoopRows(cells, colNum, i) ==
    IF i >= Len(cells) THEN <<>>
    ELSE << Row(TRUE, GridRow(cells, colNum, i)) >> \o LoopRows(cells, colNum, i + colNum)

GridResult(status, rows) == [status |-> status, rows |-> rows]

\* part_001: keyboard := make([][]T, rowCount); keyboard[k] = row; k++
MakeGridRaw(cells, colNum, rowCount) ==
    IF rowCount < 0 \/ rowCount > MaxAlloc THEN GridResult("panic", <<>>)
    \* i never reaches len(buts): k runs past the end of keyboard
    ELSE IF colNum <= 0 THEN GridResult("panic", <<>>)
    ELSE LET rows == LoopRows(cells, colNum, 0) IN
         IF Len(rows) > rowCount THEN GridResult("panic", <<>>)
         ELSE GridResult("ok",
                [ k \in 1..rowCount |->
                    IF k <= Len(rows) THEN rows[k] ELSE Row(TRUE, <<>>) ])

\* part_002: keyboard := make([][]T, 0, rowCount); keyboard = append(keyboard, row)
MakeGridBot(cells, colNum, rowCount) ==
    IF rowCount < 0 \/ rowCount > MaxAlloc THEN GridResult("panic", <<>>)
    \* i never reaches len(buts): rows are appended without end
    ELSE IF colNum <= 0 THEN GridResult("diverge", <<>>)
    ELSE GridResult("ok", LoopRows(cells, colNum, 0))

MakeGrid(im, cells, colNum, rowCount) ==
    IF im = "raw" THEN MakeGridRaw(cells, colNum, rowCount)
    ELSE MakeGridBot(cells, colNum, rowCount)

\* colNum := 3; if action.Content.ColumnNum != nil { colNum = *action.Content.ColumnNum }
ColNum(act) == IF Len(act.columnNum) = 0 THEN 3 ELSE act.columnNum[1]

(* ------------------- reply markup given by the caller ------------------ *)
\* part_001 processInlineKeyboard: every item that is a map gets a token
TakesTokenRaw(item) == item.isMap
\* part_002 convertReplyMarkup: a map without a string "url" gets a token
TakesTokenBot(item) == item.isMap /\ ~item.hasUrl
TakesToken(im, item) ==
    IF im = "raw" THEN TakesTokenRaw(item) ELSE TakesTokenBot(item)

\* positions <<row, column>> of the buttons that get a token
TokenPositions(im, rm) ==
    { p \in UNION { {<<i, j>> : j \in 1..Len(rm.rows[i].items)} : i \in 1..Len(rm.rows) } :
        rm.rows[p[1]].isList /\ TakesToken(im, rm.rows[p[1]].items[p[2]]) }

Precedes(p, q) == p[1] < q[1] \/ (p[1] = q[1] /\ p[2] < q[2])

\* value of `index` when the traversal reaches position p
IndexAt(im, rm, p) == Cardinality({ q \in TokenPositions(im, rm) : Precedes(q, p) })

\* hash := GenerateCallbackHash(index), one clock reading per call
MintAll(n, f) == [ k \in 1..n |-> GenerateCallbackHash(f[k], k - 1) ]

\* callbackQueries = append(callbackQueries, data), once per minted token
CallbackQueries(act, hashes) ==
    [ k \in 1..Len(hashes) |-> CallbackRecord(act, hashes[k], k - 1) ]

\* the markup with the minted tokens written into the buttons that take one
Stamp(im, rm, hashes) ==
    [ rm EXCEPT !.rows =
        [ i \in 1..Len(rm.rows) |->
            Row(rm.rows[i].isList,
                [ j \in 1..Len(rm.rows[i].items) |->
                    IF <<i, j>> \in TokenPositions(im, rm)
                    THEN [ rm.rows[i].items[j] EXCEPT
                             !.cb = hashes[IndexAt(im, rm, <<i, j>>) + 1] ]
                    ELSE rm.rows[i].items[j] ]) ] ]

IsList(row) == row.isList
IsMap(item) == item.isMap

\* part_002: rows that are no list and items that are no map are skipped
ConvertInline(stamped) ==
    Markup("inline_keyboard",
           LET rows == SelectSeq(stamped.rows, IsList) IN
           [ i \in 1..Len(rows) |-> Row(TRUE, SelectSeq(rows[i].items, IsMap)) ],
           FALSE, FALSE)

\* part_002: string and map items both become KeyboardButton{Text}
ConvertKeyboard(rm) ==
    Markup("keyboard",
           LET rows == SelectSeq(rm.rows, IsList) IN
           [ i \in 1..Len(rows) |->
               Row(TRUE, [ j \in 1..Len(rows[i].items) |->
                             Item(TRUE, rows[i].items[j].text, FALSE, NoToken) ]) ],
           rm.resize, rm.oneTime)

(* -------------------- outcome of the keyboard stage --------------------- *)
SaveCall(op, recs, ok) == [op |-> op, recs |-> recs, ok |-> ok]

\* status: "ok" | "error" | "panic" | "diverge"
KbOutcome(status, newCalls, mk, act, hashes, clk) ==
    [status |-> status, calls |-> newCalls, markup |-> mk, action |-> act,
     minted |-> hashes, clock |-> clk]

InlineCells(act, hashes) ==
    [ i \in 1..Len(act.buts) |-> Item(TRUE, act.buts[i], FALSE, hashes[i]) ]

\* part_001 buildInlineKeyboard: hashes for all buttons, then one
\* SaveCallbackData per button (stopping at the first error), then the grid
buildInlineKeyboardSavesPastError(act, saver, colNum, clk) ==
    LET n == Len(act.buts) IN
    UNION {
      LET hashes == MintAll(n, f)
          recs == CallbackQueries(act, hashes)
          clk2 == LastReading(f, n, clk)
          saved(k) == [ i \in 1..k |-> SaveCall("SaveCallbackData", <<recs[i]>>, TRUE) ]
          tried(k) == [ i \in 1..n |-> SaveCall("SaveCallbackData", <<recs[i]>>, i # k) ]
          failed == IF saver
                    THEN { KbOutcome("error", tried(k + 1), NoMarkup, act, hashes, clk2)
                           : k \in 0..(n - 1) }
                    ELSE {}
          built == { LET g == MakeGridRaw(InlineCells(act, hashes), colNum, rc) IN
                     KbOutcome(g.status,
                               IF saver THEN saved(n) ELSE <<>>,
                               IF g.status = "ok"
                               THEN Markup("inline_keyboard", g.rows, FALSE, FALSE)
                               ELSE NoMarkup,
                               act, hashes, clk2) : rc \in RowCount(n, colNum) }
      IN failed \cup built : f \in ClockRuns(n, clk) }
buildInlineKeyboard(act, saver, colNum, clk) ==
    LET n == Len(act.buts) IN
    UNION {
      LET hashes == MintAll(n, f)
          recs == CallbackQueries(act, hashes)
          clk2 == LastReading(f, n, clk)
          saved(k) == [ i \in 1..k |-> SaveCall("SaveCallbackData", <<recs[i]>>, TRUE) ]
          failed == IF saver
                    THEN { KbOutcome("error",
                              saved(k) \o << SaveCall("SaveCallbackData", <<recs[k + 1]>>, FALSE) >>,
                              NoMarkup, act, hashes, clk2) : k \in 0..(n - 1) }
                    ELSE {}
          built == { LET g == MakeGridRaw(InlineCells(act, hashes), colNum, rc) IN
                     KbOutcome(g.status,
                               IF saver THEN saved(n) ELSE <<>>,
                               IF g.status = "ok"
                               THEN Markup("inline_keyboard", g.rows, FALSE, FALSE)
                               ELSE NoMarkup,
                               act, hashes, clk2) : rc \in RowCount(n, colNum) }
      IN failed \cup built : f \in ClockRuns(n, clk) }

\* part_002 buildInlineKeyboardMarkup: hashes and records for all buttons,
\* one SaveCallbackDataBatch, then the grid
buildInlineKeyboardMarkup(act, saver, colNum, clk) ==
    LET n == Len(act.buts) IN
    UNION {
      LET hashes == MintAll(n, f)
          recs == CallbackQueries(act, hashes)
          clk2 == LastReading(f, n, clk)
          batch(ok) == << SaveCall("SaveCallbackDataBatch", recs, ok) >>
          failed == IF saver /\ Len(recs) > 0
                    THEN { KbOutcome("error", batch(FALSE), NoMarkup, act, hashes, clk2) }
                    ELSE {}
          built == { LET g == MakeGridBot(InlineCells(act, hashes), colNum, rc) IN
                     KbOutcome(g.status,
                               IF saver /\ Len(recs) > 0 THEN batch(TRUE) ELSE <<>>,
                               IF g.status = "ok"
                               THEN Markup("inline_keyboard", g.rows, FALSE, FALSE)
                               ELSE NoMarkup,
                               act, hashes, clk2) : rc \in RowCount(n, colNum) }
      IN failed \cup built : f \in ClockRuns(n, clk) }

\* part_001 buildVirtualKeyboard: rows of plain label strings
buildVirtualKeyboardSticky(act, colNum, clk) ==
    { LET g == MakeGridRaw([ i \in 1..Len(act.buts) |-> Item(FALSE, act.buts[i], FALSE, NoToken) ],
                           colNum, rc) IN
      KbOutcome(g.status, <<>>,
                IF g.status = "ok" THEN Markup("keyboard", g.rows, TRUE, FALSE) ELSE NoMarkup,
                act, <<>>, clk) : rc \in RowCount(Len(act.buts), colNum) }
buildVirtualKeyboard(act, colNum, clk) ==
    { LET g == MakeGridRaw([ i \in 1..Len(act.buts) |-> Item(FALSE, act.buts[i], FALSE, NoToken) ],
                           colNum, rc) IN
      KbOutcome(g.status, <<>>,
                IF g.status = "ok" THEN Markup("keyboard", g.rows, TRUE, TRUE) ELSE NoMarkup,
                act, <<>>, clk) : rc \in RowCount(Len(act.buts), colNum) }

\* part_002 buildReplyKeyboardMarkup: rows of KeyboardButton{Text}
buildReplyKeyboardMarkup(act, colNum, clk) ==
    { LET g == MakeGridBot([ i \in 1..Len(act.buts) |-> Item(TRUE, act.buts[i], FALSE, NoToken) ],
                           colNum, rc) IN
      KbOutcome(g.status, <<>>,
                IF g.status = "ok" THEN Markup("keyboard", g.rows, TRUE, TRUE) ELSE NoMarkup,
                act, <<>>, clk) : rc \in RowCount(Len(act.buts), colNum) }

\* part_001 processInlineKeyboard: the caller's button maps are written in
\* place (tgMessage["reply_markup"] is the caller's map), then one batch save
processInlineKeyboard(act, saver, clk) ==
    LET rm == act.replyMarkup IN
    IF ~rm.isList THEN { KbOutcome("ok", <<>>, rm, act, <<>>, clk) }
    ELSE LET n == Cardinality(TokenPositions("raw", rm)) IN
         { LET hashes == MintAll(n, f)
               stamped == Stamp("raw", rm, hashes)
               act2 == [act EXCEPT !.replyMarkup = stamped]
               recs == CallbackQueries(act, hashes)
               clk2 == LastReading(f, n, clk)
           IN IF saver /\ Len(recs) > 0
              THEN KbOutcome(IF ok THEN "ok" ELSE "error",
                             << SaveCall("SaveCallbackDataBatch", recs, ok) >>,
                             stamped, act2, hashes, clk2)
              ELSE KbOutcome("ok", <<>>, stamped, act2, hashes, clk2)
           : f \in ClockRuns(n, clk), ok \in BOOLEAN }

\* part_002 convertReplyMarkup: a new keyboard is built from the caller's map
convertReplyMarkup(act, saver, clk) ==
    LET rm == act.replyMarkup IN
    IF rm.key = "inline_keyboard" THEN
        IF ~rm.isList THEN { KbOutcome("ok", <<>>, rm, act, <<>>, clk) }
        ELSE LET n == Cardinality(TokenPositions("bot", rm)) IN
             { LET hashes == MintAll(n, f)
                   stamped == Stamp("bot", rm, hashes)
                   recs == CallbackQueries(act, hashes)
                   clk2 == LastReading(f, n, clk)
               IN IF saver /\ Len(recs) > 0
                  THEN KbOutcome(IF ok THEN "ok" ELSE "error",
                                 << SaveCall("SaveCallbackDataBatch", recs, ok) >>,
                                 IF ok THEN ConvertInline(stamped) ELSE NoMarkup,
                                 act, hashes, clk2)
                  ELSE KbOutcome("ok", <<>>, ConvertInline(stamped), act, hashes, clk2)
               : f \in ClockRuns(n, clk), ok \in BOOLEAN }
    ELSE IF rm.key = "keyboard" THEN
        IF ~rm.isList THEN { KbOutcome("ok", <<>>, rm, act, <<>>, clk) }
        ELSE { KbOutcome("ok", <<>>, ConvertKeyboard(rm), act, <<>>, clk) }
    ELSE { KbOutcome("ok", <<>>, rm, act, <<>>, clk) }

\* part_001 processKeyboards
processKeyboards(act, saver, clk) ==
    IF act.replyMarkup.present THEN
        IF act.replyMarkup.key = "inline_keyboard"
        THEN processInlineKeyboard(act, saver, clk)
        ELSE { KbOutcome("ok", <<>>, act.replyMarkup, act, <<>>, clk) }
    ELSE IF Len(act.buts) = 0 THEN { KbOutcome("ok", <<>>, NoMarkup, act, <<>>, clk) }
    ELSE IF act.type = "inline_keyboard"
         THEN buildInlineKeyboard(act, saver, ColNum(act), clk)
    ELSE IF act.type = "virtual_keyboard"
         THEN buildVirtualKeyboard(act, ColNum(act), clk)
    ELSE { KbOutcome("ok", <<>>, NoMarkup, act, <<>>, clk) }

\* part_002 applyReplyMarkup
applyReplyMarkupButsFirst(act, saver, clk) ==
    IF Len(act.buts) > 0 /\ act.type = "inline_keyboard"
    THEN buildInlineKeyboardMarkup(act, saver, ColNum(act), clk)
    ELSE IF act.replyMarkup.present THEN convertReplyMarkup(act, saver, clk)
    ELSE IF Len(act.buts) = 0 THEN { KbOutcome("ok", <<>>, NoMarkup, act, <<>>, clk) }
    ELSE IF act.type = "virtual_keyboard"
         THEN buildReplyKeyboardMarkup(act, ColNum(act), clk)
    ELSE { KbOutcome("ok", <<>>, NoMarkup, act, <<>>, clk) }
applyReplyMarkup(act, saver, clk) ==
    IF act.replyMarkup.present THEN convertReplyMarkup(act, saver, clk)
    ELSE IF Len(act.buts) = 0 THEN { KbOutcome("ok", <<>>, NoMarkup, act, <<>>, clk) }
    ELSE IF act.type = "inline_keyboard"
         THEN buildInlineKeyboardMarkup(act, saver, ColNum(act), clk)
    ELSE IF act.type = "virtual_keyboard"
         THEN buildReplyKeyboardMarkup(act, ColNum(act), clk)
    ELSE { KbOutcome("ok", <<>>, NoMarkup, act, <<>>, clk) }

(* ------------------------ markup transcoder ---------------------------- *)
\* texts are sequences of one-character strings (runes := []rune(text))
\* BS is the backslash; BT stands for the backtick, written as an apostrophe
\* because a string of this notation cannot hold a backtick
BS == "\\"
BT == "'"

\* runes[i] and runes[a:b] with the code's zero-based indices
At(runes, i) == runes[i + 1]
Slice(runes, a, b) == SubSeq(runes, a + 1, b)

\* for i := start; i+2 < len(runes); i++ { if runes[i..i+2] are three backticks { return i } }
RECURSIVE findClosingCodeBlock(_, _)
findClosingCodeBlock(runes, start) ==
    IF ~(start + 2 < Len(runes)) THEN 0 - 1
    ELSE IF At(runes, start) = BT /\ At(runes, start + 1) = BT /\ At(runes, start + 2) = BT
         THEN start
    ELSE findClosingCodeBlock(runes, start + 1)

\* for i := start; i < len(runes); i++ { match: return i; backslash: i++ }
RECURSIVE findClosingChar(_, _, _)
findClosingChar(runes, start, char) ==
    IF ~(start < Len(runes)) THEN 0 - 1
    ELSE IF At(runes, start) = char THEN start
    ELSE IF At(runes, start) = BS /\ start + 1 < Len(runes)
         THEN findClosingChar(runes, start + 2, char)
    ELSE findClosingChar(runes, start + 1, char)

\* for i := start; i+1 < len(runes); i++ { match: return i; backslash: i++ }
RECURSIVE findClosingDouble(_, _, _)
findClosingDouble(runes, start, char) ==
    IF ~(start + 1 < Len(runes)) THEN 0 - 1
    ELSE IF At(runes, start) = char /\ At(runes, start + 1) = char THEN start
    ELSE IF At(runes, start) = BS /\ start + 1 < Len(runes)
         THEN findClosingDouble(runes, start + 2, char)
    ELSE findClosingDouble(runes, start + 1, char)

\* parseLinkMarkdown, first loop: the index of the closing bracket
RECURSIVE LinkBracketEnd(_, _)
LinkBracketEnd(runes, i) ==
    IF ~(i < Len(runes)) THEN 0 - 1
    ELSE IF At(runes, i) = "]" THEN i
    ELSE IF At(runes, i) = BS /\ i + 1 < Len(runes) THEN LinkBracketEnd(runes, i + 2)
    ELSE LinkBracketEnd(runes, i + 1)

\* parseLinkMarkdown, second loop: the parenthesis that brings depth to zero
RECURSIVE LinkParenEndFirst(_, _, _)
LinkParenEndFirst(runes, i, depth) ==
    IF ~(i < Len(runes)) THEN 0 - 1
    ELSE IF At(runes, i) = ")" THEN i
    ELSE IF At(runes, i) = BS /\ i + 1 < Len(runes)
         THEN LinkParenEndFirst(runes, i + 2, depth)
    ELSE LinkParenEndFirst(runes, i + 1, depth)
RECURSIVE LinkParenEnd(_, _, _)
LinkParenEnd(runes, i, depth) ==
    IF ~(i < Len(runes)) THEN 0 - 1
    ELSE LET d == IF At(runes, i) = "(" THEN depth + 1
                  ELSE IF At(runes, i) = ")" THEN depth - 1
                  ELSE depth
         IN IF At(runes, i) = ")" /\ d = 0 THEN i
            ELSE IF At(runes, i) = BS /\ i + 1 < Len(runes)
                 THEN LinkParenEnd(runes, i + 2, d)
            ELSE LinkParenEnd(runes, i + 1, d)

parseLinkMarkdown(runes, start) ==
    IF At(runes, start) # "[" THEN 0 - 1
    ELSE LET bracketEnd == LinkBracketEnd(runes, start + 1) IN
         IF bracketEnd = 0 - 1 \/ bracketEnd + 1 >= Len(runes)
            \/ At(runes, bracketEnd + 1) # "("
         THEN 0 - 1
         ELSE LinkParenEnd(runes, bracketEnd + 2, 1)

\* strings.ReplaceAll(text, char, "\\"+char) for a one-character char
RECURSIVE ReplaceAll(_, _, _)
ReplaceAll(text, char, with) ==
    IF Len(text) = 0 THEN <<>>
    ELSE (IF Head(text) = char THEN with ELSE << Head(text) >>)
         \o ReplaceAll(Tail(text), char, with)

specialInsideBackslashLast == << BT, ")", "(", ">", BS >>
specialInside == << BS, BT, ")", "(", ">" >>

\* for _, char := range specialInside { result = strings.ReplaceAll(result, ...) }
RECURSIVE EscapePasses(_, _, _)
EscapePasses(text, chars, k) ==
    IF k > Len(chars) THEN text
    ELSE EscapePasses(ReplaceAll(text, chars[k], << BS, chars[k] >>), chars, k + 1)

escapeInsideFormat(text) == EscapePasses(text, specialInside, 1)

\* specialChars of EscapeMarkdownV2
specialCharsWithBackslash ==
    << "_", "*", "[", "]", "(", ")", "~", BT, ">", "#", "+", "-", "=", "|", "{", "}",
       ".", "!", BS >>
specialChars ==
    << "_", "*", "[", "]", "(", ")", "~", BT, ">", "#", "+", "-", "=", "|", "{", "}",
       ".", "!" >>

\* for _, char := range specialChars { result = strings.ReplaceAll(result, char, "\\"+char) }
EscapeMarkdownV2(text) == EscapePasses(text, specialChars, 1)

\* strings.ReplaceAll(text, old, ""): the non-overlapping occurrences of old,
\* found from the left, are dropped
RECURSIVE RemoveAll(_, _)
RemoveAll(text, old) ==
    IF Len(text) < Len(old) THEN text
    ELSE IF SubSeq(text, 1, Len(old)) = old
    THEN RemoveAll(SubSeq(text, Len(old) + 1, Len(text)), old)
    ELSE << Head(text) >> \o RemoveAll(Tail(text), old)

\* the delimiters StripMarkdown removes, in the order of its loop
stripDelimiters ==
    << << BT, BT, BT >>, << "|", "|" >>, << "_", "_" >>, << "*" >>, << "_" >>,
       << "~" >>, << BT >> >>

RECURSIVE StripPasses(_, _, _)
StripPasses(text, olds, k) ==
    IF k > Len(olds) THEN text
    ELSE StripPasses(RemoveAll(text, olds[k]), olds, k + 1)

\* the delimiter passes, then strings.ReplaceAll(result, "\\", "")
StripMarkdown(text) == RemoveAll(StripPasses(text, stripDelimiters, 1), << BS >>)

isMarkdownV2SpecialNoBang(r) ==
    r \in { "_", "*", "[", "]", "(", ")", "~", BT, ">", "#", "+", "-", "=", "|",
            "{", "}", ".", BS }
isMarkdownV2Special(r) ==
    r \in { "_", "*", "[", "]", "(", ")", "~", BT, ">", "#", "+", "-", "=", "|",
            "{", "}", ".", "!", BS }

\* what one iteration of the scan loop writes and where it leaves the cursor
IterationStuck(branch, emit, next) ==
    [branch |-> branch, emit |-> emit, next |-> next - 1]
Iteration(branch, emit, next) == [branch |-> branch, emit |-> emit, next |-> next]

\* the body of `for i < len(runes)`: the delimiter checks in the code's order,
\* each falling through to the next when it finds no closer
ScanStep(runes, i) ==
    LET n == Len(runes)
        r == At(runes, i)
        codeEnd == IF i + 2 < n /\ r = BT /\ At(runes, i + 1) = BT /\ At(runes, i + 2) = BT
                   THEN findClosingCodeBlock(runes, i + 3) ELSE 0 - 1
        tickEnd == IF r = BT THEN findClosingChar(runes, i + 1, BT) ELSE 0 - 1
        spoilEnd == IF i + 1 < n /\ r = "|" /\ At(runes, i + 1) = "|"
                    THEN findClosingDouble(runes, i + 2, "|") ELSE 0 - 1
        underEnd == IF i + 1 < n /\ r = "_" /\ At(runes, i + 1) = "_"
                    THEN findClosingDouble(runes, i + 2, "_") ELSE 0 - 1
        boldEnd == IF r = "*" THEN findClosingChar(runes, i + 1, "*") ELSE 0 - 1
        italEnd == IF r = "_" /\ (i + 1 >= n \/ At(runes, i + 1) # "_")
                   THEN LET e == findClosingChar(runes, i + 1, "_") IN
                        IF e # 0 - 1 /\ (e + 1 >= n \/ At(runes, e + 1) # "_")
                        THEN e ELSE 0 - 1
                   ELSE 0 - 1
        strikeEnd == IF r = "~" THEN findClosingChar(runes, i + 1, "~") ELSE 0 - 1
        linkEnd == IF r = "[" THEN parseLinkMarkdown(runes, i) ELSE 0 - 1
    IN IF codeEnd # 0 - 1
       THEN Iteration("code_block", Slice(runes, i, codeEnd + 3), codeEnd + 3)
       ELSE IF tickEnd # 0 - 1
       THEN Iteration("inline_code", Slice(runes, i, tickEnd + 1), tickEnd + 1)
       ELSE IF spoilEnd # 0 - 1
       THEN Iteration("spoiler",
                      << "|", "|" >> \o escapeInsideFormat(Slice(runes, i + 2, spoilEnd))
                          \o << "|", "|" >>, spoilEnd + 2)
       ELSE IF underEnd # 0 - 1
       THEN Iteration("underline",
                      << "_", "_" >> \o escapeInsideFormat(Slice(runes, i + 2, underEnd))
                          \o << "_", "_" >>, underEnd + 2)
       ELSE IF boldEnd # 0 - 1
       THEN Iteration("bold",
                      << "*" >> \o escapeInsideFormat(Slice(runes, i + 1, boldEnd))
                          \o << "*" >>, boldEnd + 1)
       ELSE IF italEnd # 0 - 1
       THEN Iteration("italic",
                      << "_" >> \o escapeInsideFormat(Slice(runes, i + 1, italEnd))
                          \o << "_" >>, italEnd + 1)
       ELSE IF strikeEnd # 0 - 1
       THEN Iteration("strikethrough",
                      << "~" >> \o escapeInsideFormat(Slice(runes, i + 1, strikeEnd))
                          \o << "~" >>, strikeEnd + 1)
       ELSE IF linkEnd # 0 - 1
       THEN Iteration("link", Slice(runes, i, linkEnd + 1), linkEnd + 1)
       ELSE Iteration("plain",
                      (IF isMarkdownV2Special(r) THEN << BS >> ELSE <<>>) \o << r >>,
                      i + 1)

RECURSIVE FormatLoop(_, _)
FormatLoop(runes, i) ==
    IF ~(i < Len(runes)) THEN <<>>
    ELSE LET s == ScanStep(runes, i) IN s.emit \o FormatLoop(runes, s.next)

\* if text == "" { return "" }; the scan from cursor 0; return result.String()
FormatMarkdownV2(text) == IF Len(text) = 0 THEN <<>> ELSE FormatLoop(text, 0)

(* ------------------------ method dispatch ------------------------------ *)
MediaMethod(t) ==
    CASE t = "photo" -> "sendPhoto"
      [] t = "document" -> "sendDocument"
      [] t = "video" -> "sendVideo"
      [] t = "audio" -> "sendAudio"
      [] t = "video_note" -> "sendVideoNote"
      [] t = "voice" -> "sendVoice"
      [] OTHER -> "sendMessage"

SpecialMethod(t) ==
    CASE t = "sticker" -> "sendSticker"
      [] t = "dice" -> "sendDice"
      [] t = "contact" -> "sendContact"
      [] t = "poll" -> "sendPoll"
      [] t = "game" -> "sendGame"
      [] t = "venue" -> "sendVenue"
      [] OTHER -> ""

\* part_001 determineMethod: the method name ("" when no case matches)
determineMethod(act) ==
    IF act.type \in SpecialTypes THEN SpecialMethod(act.type)
    ELSE IF act.type \in TextTypes THEN
        IF ~act.attachment.present \/ act.attachment.url = "" THEN "sendMessage"
        ELSE MediaMethod(act.attachment.type)
    ELSE ""

\* part_002 ExecuteAction switch and sendTextBasedAction / sendMediaAction
botMethod(act) ==
    IF act.type \in SpecialTypes THEN SpecialMethod(act.type)
    ELSE IF act.attachment.present /\ act.attachment.url # "" THEN MediaMethod(act.attachment.type)
    ELSE "sendMessage"

\* the content types whose code reads action.Content.Attachment without a nil check
DerefsAttachmentRaw(t) == t \in SpecialTypes
DerefsAttachmentBot(t) == t \in (SpecialTypes \ {"dice"})

(* -------------------- parameters of the outbound request --------------- *)
\* an optional string parameter of the request
None == [set |-> FALSE, val |-> <<>>]
Some(v) == [set |-> TRUE, val |-> v]

\* spices["parse_mode"]: absent, a string, or a value that is no string
NoParseMode == [present |-> FALSE, isString |-> FALSE, val |-> ""]
ParseModes ==
    { NoParseMode,
      [present |-> TRUE, isString |-> TRUE, val |-> "MarkdownV2"],
      [present |-> TRUE, isString |-> TRUE, val |-> "HTML"],
      [present |-> TRUE, isString |-> TRUE, val |-> "markdownv2"],
      [present |-> TRUE, isString |-> FALSE, val |-> ""] }

\* if parseMode, ok := Spices["parse_mode"]; ok { if parseMode == "MarkdownV2" {...} }
IsMarkdownV2(pm) == pm.present /\ pm.isString /\ pm.val = "MarkdownV2"

\* text := action.Content.Text; if ... { text = FormatMarkdownV2(text) }
ApplyFormatting(text, pm) == IF IsMarkdownV2(pm) THEN FormatMarkdownV2(text) ELSE text

MediaTypes == { "photo", "document", "video", "audio", "video_note", "voice" }

\* status: "sent" | "not_sent" | "panic"
Request(status, m, text, caption, explanation) ==
    [status |-> status, method |-> m, text |-> text, caption |-> caption,
     explanation |-> explanation]

\* part_001: the method and the text, caption and explanation entries of
\* tgMessage handed to c.Call
rawRequest(d) ==
    LET text == ApplyFormatting(d.text, d.parseMode)
        m == determineMethod(d)
    IN IF DerefsAttachmentRaw(d.type) /\ ~d.attachment.present
       THEN Request("panic", "", None, None, None)
       ELSE IF d.type = "poll"
       THEN Request("sent", m, None, None,
                    IF d.isMap /\ d.explanation.set
                    THEN Some(FormatMarkdownV2(d.explanation.val)) ELSE None)
       ELSE IF d.type \in SpecialTypes THEN Request("sent", m, None, None, None)
       ELSE IF d.type \in TextTypes THEN
            IF ~d.attachment.present \/ d.attachment.url = ""
            THEN Request("sent", m, Some(text), None, None)
            ELSE IF d.attachment.type \in MediaTypes
            THEN Request("sent", m, None, Some(text), None)
            ELSE Request("sent", m, Some(text), Some(text), None)
       ELSE Request("sent", m, None, None, None)

\* part_002: the method and the Text, Caption and Explanation fields of the
\* message handed to c.bot.Send
botRequest(d) ==
    LET text == ApplyFormatting(d.text, d.parseMode)
        parseMode == IF d.parseMode.present /\ d.parseMode.isString
                     THEN d.parseMode.val ELSE ""
        m == botMethod(d)
    IN IF DerefsAttachmentBot(d.type) /\ ~d.attachment.present
       THEN Request("panic", "", None, None, None)
       ELSE IF d.type \in {"contact", "poll", "venue"} /\ ~d.isMap
       THEN Request("not_sent", "", None, None, None)
       ELSE IF d.type = "poll"
       THEN Request("sent", m, None, None,
                    IF d.explanation.set
                    THEN Some(IF parseMode = "MarkdownV2"
                              THEN FormatMarkdownV2(d.explanation.val)
                              ELSE d.explanation.val)
                    ELSE None)
       ELSE IF d.type \in SpecialTypes THEN Request("sent", m, None, None, None)
       ELSE IF d.attachment.present /\ d.attachment.url # ""
       THEN IF d.attachment.type \in {"photo", "document", "video", "audio", "voice"}
            THEN Request("sent", m, None, Some(text), None)
            ELSE IF d.attachment.type = "video_note"
            THEN Request("sent", m, None, None, None)
            ELSE Request("sent", m, Some(text), None, None)
       ELSE Request("sent", m, Some(text), None, None)

BuildRequest(im, d) == IF im = "raw" THEN rawRequest(d) ELSE botRequest(d)

\* part_001: tgMessage["chat_id"] when c.Call is reached: set from
\* action.User.TgID (89), then every key of Spices is copied over tgMessage
\* (100-102), then every key of a poll or venue payload (162-164, 176-178)
rawChatId(d) ==
    LET first == << TgID >>
        spiced == IF d.spiceChatId # <<>> THEN d.spiceChatId ELSE first
    IN IF d.type \in {"poll", "venue"} /\ d.isMap /\ d.payloadChatId # <<>>
       THEN d.payloadChatId ELSE spiced

\* part_002: every message is built with tgbotapi.New...(action.User.TgID, ...)
botChatId(d) == << TgID >>

RequestChatId(im, d) == IF im = "raw" THEN rawChatId(d) ELSE botChatId(d)

\* what ExecuteAction returns for the request: nothing after a panic, success
\* when the send helper returned no error (part_001:119-138, part_002:131-138)
ExecuteResult(req, replyOk) ==
    IF req.status = "panic" THEN [returned |-> FALSE, success |-> FALSE]
    ELSE IF req.status = "not_sent" THEN [returned |-> TRUE, success |-> TRUE]
    ELSE [returned |-> TRUE, success |-> replyOk]

(* ============================ state ==================================== *)
VARIABLES
    impl,       \* which ExecuteAction this Client has
    pc,         \* position of the running ExecuteAction
    action,     \* the caller's Action (the pointer's target)
    hasSaver,   \* callbackSaver != nil
    clock,      \* last reading of time.Now().UnixNano()
    botReady,   \* c.bot != nil (part_002 / client.go)
    method,     \* outbound method name
    markup,     \* reply markup attached to the outbound message
    minted,     \* the tokens minted so far, in minting order
    calls,      \* external calls issued so far, in order
    outbound,   \* main sends handed to the transport
    result,     \* the returned *ActionResult
    retErr,     \* the returned error
    outcome,    \* "none" | "returned" | "panic" | "diverge"
    lay,        \* input and result of one keyboard layout (SpecLayout)
    fmt,        \* one run of FormatMarkdownV2: input, cursor, output (SpecFormat)
    dsp,        \* input and outbound request of one dispatch (SpecDispatch)
    hsh,        \* two calls of GenerateCallbackHash and their hash inputs (SpecHash)
    txt,        \* input and results of EscapeMarkdownV2 / StripMarkdown (SpecText)
    rty,        \* one run of sendMethod: attempts made, replies, result (SpecRetry)
    con         \* concurrent ExecuteAction calls on one Client (SpecConcurrent)

vars == << impl, pc, action, hasSaver, clock, botReady, method, markup, minted,
           calls, outbound, result, retErr, outcome, lay, fmt, dsp, hsh, txt, rty, con >>

NoResult == [success |-> FALSE, error |-> NoError, messageId |-> 0]
IdleAction == CHOOSE a \in Actions : TRUE
LayIdle == [phase |-> "off", kind |-> "", labels |-> <<>>, cols |-> 0,
            status |-> "", rows |-> <<>>]
FmtIdle == [phase |-> "off", runes |-> <<>>, i |-> 0, out |-> <<>>, prev |-> 0,
            branch |-> "", emit |-> <<>>, iters |-> 0]
DspIdle == [phase |-> "off", in |-> <<>>, out |-> <<>>, chatId |-> <<>>,
            replyOk |-> FALSE, returned |-> FALSE, success |-> FALSE]
HshIdle == [phase |-> "off", t1 |-> 0, i1 |-> 0, t2 |-> 0, i2 |-> 0,
            h1 |-> NoToken, h2 |-> NoToken]
TxtIdle == [phase |-> "off", fn |-> "", in |-> <<>>, once |-> <<>>, twice |-> <<>>]
RtyIdle == [phase |-> "off", method |-> "", i |-> 0, replies |-> <<>>, slept |-> <<>>,
            lastErr |-> NoError, err |-> NoError, hasMsg |-> FALSE]
ConIdle == [phase |-> "off", bot |-> 0, pc |-> <<>>, made |-> <<>>, used |-> <<>>,
            acc |-> {}]

Init ==
    /\ impl \in Impls
    /\ pc = "idle"
    /\ action = IdleAction
    /\ hasSaver = FALSE
    /\ clock = 0
    /\ botReady = FALSE
    /\ method = ""
    /\ markup = NoMarkup
    /\ minted = <<>>
    /\ calls = <<>>
    /\ outbound = <<>>
    /\ result = NoResult
    /\ retErr = NoError
    /\ outcome = "none"
    /\ lay = LayIdle
    /\ fmt = FmtIdle
    /\ dsp = DspIdle
    /\ hsh = HshIdle
    /\ txt = TxtIdle
    /\ rty = RtyIdle
    /\ con = ConIdle

\* a caller invokes ExecuteAction(ctx, action, callbackSaver)
Start ==
    /\ pc = "idle"
    /\ lay.phase = "off"
    /\ \E a \in Actions, sv \in BOOLEAN :
        /\ action' = a
        /\ hasSaver' = sv
    /\ pc' = "prepare"
    /\ UNCHANGED << impl, clock, botReady, method, markup, minted, calls,
                    outbound, result, retErr, outcome, lay, fmt, dsp, hsh, txt, rty, con >>

Return(res, err) ==
    /\ result' = res
    /\ retErr' = err
    /\ outcome' = "returned"
    /\ pc' = "done"

Crash(how) ==
    /\ outcome' = how
    /\ pc' = "done"
    /\ UNCHANGED << result, retErr >>

Failure(err) == [success |-> FALSE, error |-> err, messageId |-> 0]

\* if action.Content.Stream != "tg_direct" && action.Content.Stream != "" { return ... }
StreamAcceptsAll(stream) == TRUE
StreamSupported(stream) == stream = "tg_direct" \/ stream = ""

\* if err := c.processKeyboards(...); err != nil { return &ActionResult{...}, err }
KeyboardErrorDropped(o) == FALSE
KeyboardFailed(o) == o.status = "error"

\* part_001:82-105 / part_002:84-101: stream check, initBot, method choice
Prepare ==
    /\ pc = "prepare"
    /\ IF ~StreamSupported(action.stream)
       THEN /\ Return([success |-> FALSE, error |-> NoError, messageId |-> 0], NoError)
            /\ UNCHANGED << botReady, method >>
       ELSE IF impl = "raw"
       THEN IF DerefsAttachmentRaw(action.type) /\ ~action.attachment.present
            THEN /\ Crash("panic")
                 /\ UNCHANGED << botReady, method >>
            ELSE /\ method' = determineMethod(action)
                 /\ pc' = "keyboards"
                 /\ UNCHANGED << botReady, result, retErr, outcome >>
       ELSE \* initBot
            \/ /\ botReady' = TRUE
               /\ method' = botMethod(action)
               /\ pc' = "chat"
               /\ UNCHANGED << result, retErr, outcome >>
            \/ /\ ~botReady
               /\ Return(Failure("init_err"), "init_err")
               /\ UNCHANGED << botReady, method >>
    /\ UNCHANGED << impl, action, hasSaver, clock, markup, minted, calls, outbound, lay,
                    fmt, dsp, hsh, txt, rty, con >>

KeyboardStage(im, act, saver, clk) ==
    IF im = "raw" THEN processKeyboards(act, saver, clk)
    ELSE applyReplyMarkup(act, saver, clk)

\* part_001:107-110 processKeyboards / part_002:267 applyReplyMarkup
Keyboards ==
    /\ pc = "keyboards"
    /\ \E o \in KeyboardStage(impl, action, hasSaver, clock) :
        /\ calls' = calls \o o.calls
        /\ minted' = minted \o o.minted
        /\ clock' = o.clock
        /\ action' = o.action
        /\ markup' = o.markup
        /\ IF KeyboardFailed(o) THEN Return(Failure("save_err"), "save_err")
           ELSE IF o.status \in {"panic", "diverge"} THEN Crash(o.status)
           ELSE /\ pc' = IF impl = "raw" THEN "chat" ELSE "send"
                /\ UNCHANGED << result, retErr, outcome >>
    /\ UNCHANGED << impl, hasSaver, botReady, method, outbound, lay, fmt, dsp, hsh, txt, rty, con >>

\* _ = c.SendChatAction(...) / _, _ = c.bot.Request(chatAction): the error of
\* the chat-action request is discarded
ChatErrorAborts(ok) == ~ok
ChatErrorReturned(ok) == FALSE

\* part_001:112-115 / part_002:103-107: best-effort chat action
ChatAction ==
    /\ pc = "chat"
    /\ LET next == IF impl = "raw" THEN "send"
                   ELSE IF action.type \in SpecialTypes THEN "send" ELSE "keyboards"
       IN IF action.sendReaction
          THEN \E ok \in BOOLEAN :
                 /\ calls' = Append(calls, SaveCall("sendChatAction", <<>>, ok))
                 /\ IF ChatErrorReturned(ok)
                    THEN Return(Failure("chat_err"), "chat_err")
                    ELSE /\ pc' = next
                         /\ UNCHANGED << result, retErr, outcome >>
          ELSE /\ calls' = calls
               /\ pc' = next
               /\ UNCHANGED << result, retErr, outcome >>
    /\ UNCHANGED << impl, action, hasSaver, clock, botReady, method, markup, minted,
                    outbound, lay, fmt, dsp, hsh, txt, rty, con >>

Outbound(m, act, mk) == [method |-> m, chatId |-> act.tgId, markup |-> mk]

\* part_001:117-138 c.Call / part_002:113-138 c.bot.Send
Send ==
    /\ pc = "send"
    /\ IF impl = "bot" /\ DerefsAttachmentBot(action.type) /\ ~action.attachment.present
       THEN /\ Crash("panic")
            /\ UNCHANGED << calls, outbound >>
       ELSE /\ outbound' = Append(outbound, Outbound(method, action, markup))
            /\ \E ok \in BOOLEAN :
                /\ calls' = Append(calls, SaveCall("send", <<>>, ok))
                /\ IF ok
                   THEN Return([success |-> TRUE, error |-> NoError, messageId |-> 1], NoError)
                   ELSE Return(Failure("send_err"), "send_err")
    /\ UNCHANGED << impl, action, hasSaver, clock, botReady, method, markup, minted, lay,
                    fmt, dsp, hsh, txt, rty, con >>

Next == Start \/ Prepare \/ Keyboards \/ ChatAction \/ Send

Spec == Init /\ [][Next]_vars

(* ------------- the button layout as a function of its input ------------ *)
LabelSeqs == UNION { [1..k -> {"A", "B"}] : k \in 0..MaxLayoutLen }

LayoutAction(kind, labels, cols) ==
    [ IdleAction EXCEPT !.stream = "tg_direct", !.type = kind, !.buts = labels,
                        !.actions = <<>>, !.replyMarkup = NoMarkup,
                        !.columnNum = <<cols>> ]

InitLayout ==
    /\ impl \in Impls
    /\ pc = "idle"
    /\ action = IdleAction
    /\ hasSaver = FALSE
    /\ clock = MaxClock
    /\ botReady = FALSE
    /\ method = ""
    /\ markup = NoMarkup
    /\ minted = <<>>
    /\ calls = <<>>
    /\ outbound = <<>>
    /\ result = NoResult
    /\ retErr = NoError
    /\ outcome = "none"
    /\ \E kind \in {"inline_keyboard", "virtual_keyboard"}, labels \in LabelSeqs,
          cols \in 1..MaxCols :
         lay = [phase |-> "input", kind |-> kind, labels |-> labels, cols |-> cols,
                status |-> "", rows |-> <<>>]
    /\ fmt = FmtIdle
    /\ dsp = DspIdle
    /\ hsh = HshIdle
    /\ txt = TxtIdle
    /\ rty = RtyIdle
    /\ con = ConIdle

\* the keyboard stage applied to an Action holding the labels and the column count
LayoutBuild ==
    /\ lay.phase = "input"
    /\ \E o \in KeyboardStage(impl, LayoutAction(lay.kind, lay.labels, lay.cols),
                              FALSE, clock) :
         lay' = [lay EXCEPT !.phase = "done", !.status = o.status, !.rows = o.markup.rows]
    /\ UNCHANGED << impl, pc, action, hasSaver, clock, botReady, method, markup,
                    minted, calls, outbound, result, retErr, outcome, fmt, dsp, hsh, txt, rty, con >>

NextLayout == LayoutBuild

SpecLayout == InitLayout /\ [][NextLayout]_vars

(* --------------- FormatMarkdownV2 as a scan over its input ------------- *)
Strings(alphabet, maxLen) == UNION { [1..k -> alphabet] : k \in 0..maxLen }

FormatAlphabet == { BT, "|", "_", "*", "~", "[", "]", "(", ")", BS, ">", "!", "a" }
CodeAlphabet == { BT, BS, "a" }
LinkAlphabet == { "[", "]", "(", ")", BS }
SpanAlphabet == { "|", "_", "*", "(", BS }

\* the texts handed to FormatMarkdownV2: short ones over every kind of
\* character, longer ones over the characters of code spans, of links and of
\* the spans with one- and two-character delimiters
FormatInputs ==
    Strings(FormatAlphabet, MaxTextLen) \cup Strings(CodeAlphabet, MaxCodeLen)
        \cup Strings(LinkAlphabet, MaxLinkLen) \cup Strings(SpanAlphabet, MaxSpanLen)

InitFormat ==
    /\ impl = "bot"
    /\ pc = "idle"
    /\ action = IdleAction
    /\ hasSaver = FALSE
    /\ clock = 0
    /\ botReady = FALSE
    /\ method = ""
    /\ markup = NoMarkup
    /\ minted = <<>>
    /\ calls = <<>>
    /\ outbound = <<>>
    /\ result = NoResult
    /\ retErr = NoError
    /\ outcome = "none"
    /\ lay = LayIdle
    /\ dsp = DspIdle
    /\ hsh = HshIdle
    /\ txt = TxtIdle
    /\ rty = RtyIdle
    /\ con = ConIdle
    /\ \E text \in FormatInputs :
         fmt = [phase |-> "scan", runes |-> text, i |-> 0, out |-> <<>>, prev |-> 0,
                branch |-> "", emit |-> <<>>, iters |-> 0]

\* one iteration of `for i < len(runes)`
FormatIteration ==
    /\ fmt.phase = "scan"
    /\ fmt.i < Len(fmt.runes)
    /\ LET s == ScanStep(fmt.runes, fmt.i) IN
         fmt' = [fmt EXCEPT !.out = fmt.out \o s.emit, !.prev = fmt.i, !.i = s.next,
                            !.branch = s.branch, !.emit = s.emit,
                            !.iters = fmt.iters + 1]
    /\ UNCHANGED << impl, pc, action, hasSaver, clock, botReady, method, markup,
                    minted, calls, outbound, result, retErr, outcome, lay, dsp, hsh, txt, rty, con >>

\* the loop condition fails (also for the empty text): return result.String()
FormatReturn ==
    /\ fmt.phase = "scan"
    /\ ~(fmt.i < Len(fmt.runes))
    /\ fmt' = [fmt EXCEPT !.phase = "done"]
    /\ UNCHANGED << impl, pc, action, hasSaver, clock, botReady, method, markup,
                    minted, calls, outbound, result, retErr, outcome, lay, dsp, hsh, txt, rty, con >>

NextFormat == FormatIteration \/ FormatReturn

SpecFormat == InitFormat /\ [][NextFormat]_vars

(* ------------- the outbound request as a function of the Action -------- *)
DispatchTypes == SpecialTypes \cup TextTypes \cup {"other"}

DispatchAttachments ==
    { NoAttachment }
    \cup [ present : {TRUE}, type : MediaTypes \cup {"", "gif"}, url : {"", "u"} ]

DispatchTexts ==
    { <<>>, << "c", "a", "p" >>, << "a", "!" >>, << "*", "a", ".", "*", "." >> }

DispatchExplanations == { None, Some(<< "a" >>), Some(<< "a", "!" >>) }

\* the fields of the Action the request depends on; isMap tells whether the
\* contact / poll / venue payload of the attachment is a JSON object
DispatchInputs ==
    [ type : DispatchTypes, attachment : DispatchAttachments, isMap : BOOLEAN,
      explanation : DispatchExplanations, parseMode : ParseModes,
      text : DispatchTexts,
      \* a chat_id entry of Spices, of the poll / venue payload: absent or another chat
      spiceChatId : { <<>>, << TgID + 1 >> },
      payloadChatId : { <<>>, << TgID + 1 >> } ]

DspInput(d) ==
    [phase |-> "input", in |-> d, out |-> Request("", "", None, None, None),
     chatId |-> <<>>, replyOk |-> FALSE, returned |-> FALSE, success |-> FALSE]

InitDispatch ==
    /\ impl \in Impls
    /\ pc = "idle"
    /\ action = IdleAction
    /\ hasSaver = FALSE
    /\ clock = 0
    /\ botReady = FALSE
    /\ method = ""
    /\ markup = NoMarkup
    /\ minted = <<>>
    /\ calls = <<>>
    /\ outbound = <<>>
    /\ result = NoResult
    /\ retErr = NoError
    /\ outcome = "none"
    /\ lay = LayIdle
    /\ fmt = FmtIdle
    /\ \E d \in DispatchInputs : dsp = DspInput(d)
    /\ hsh = HshIdle
    /\ txt = TxtIdle
    /\ rty = RtyIdle
    /\ con = ConIdle

\* the request ExecuteAction builds for the Action, the transport's reply to
\* it and the result returned to the caller
Dispatch ==
    /\ dsp.phase = "input"
    /\ \E replyOk \in BOOLEAN :
         LET req == BuildRequest(impl, dsp.in)
             res == ExecuteResult(req, replyOk)
         IN dsp' = [dsp EXCEPT !.phase = "done", !.out = req,
                               !.chatId = IF req.status = "sent"
                                          THEN RequestChatId(impl, dsp.in) ELSE <<>>,
                               !.replyOk = req.status = "sent" /\ replyOk,
                               !.returned = res.returned, !.success = res.success]
    /\ UNCHANGED << impl, pc, action, hasSaver, clock, botReady, method, markup,
                    minted, calls, outbound, result, retErr, outcome, lay, fmt,
                    hsh, txt, rty, con >>

NextDispatch == Dispatch

SpecDispatch == InitDispatch /\ [][NextDispatch]_vars

(* ------------- GenerateCallbackHash as a function of its inputs -------- *)
\* the clock readings and the indexes of two calls
InitHash ==
    /\ impl \in Impls
    /\ pc = "idle"
    /\ action = IdleAction
    /\ hasSaver = FALSE
    /\ clock = 0
    /\ botReady = FALSE
    /\ method = ""
    /\ markup = NoMarkup
    /\ minted = <<>>
    /\ calls = <<>>
    /\ outbound = <<>>
    /\ result = NoResult
    /\ retErr = NoError
    /\ outcome = "none"
    /\ lay = LayIdle
    /\ fmt = FmtIdle
    /\ dsp = DspIdle
    /\ \E t1 \in 0..MaxHashVal, i1 \in 0..MaxHashVal,
          t2 \in 0..MaxHashVal, i2 \in 0..MaxHashVal :
         hsh = [phase |-> "input", t1 |-> t1, i1 |-> i1, t2 |-> t2, i2 |-> i2,
                h1 |-> NoToken, h2 |-> NoToken]
    /\ txt = TxtIdle
    /\ rty = RtyIdle
    /\ con = ConIdle

\* the first call: GenerateCallbackHash(i1) while the clock reads t1
HashFirst ==
    /\ hsh.phase = "input"
    /\ hsh' = [hsh EXCEPT !.phase = "first", !.h1 = GenerateCallbackHash(hsh.t1, hsh.i1)]
    /\ UNCHANGED << impl, pc, action, hasSaver, clock, botReady, method, markup,
                    minted, calls, outbound, result, retErr, outcome, lay, fmt, dsp,
                    txt, rty, con >>

\* the second call: GenerateCallbackHash(i2) while the clock reads t2
HashSecond ==
    /\ hsh.phase = "first"
    /\ hsh' = [hsh EXCEPT !.phase = "done", !.h2 = GenerateCallbackHash(hsh.t2, hsh.i2)]
    /\ UNCHANGED << impl, pc, action, hasSaver, clock, botReady, method, markup,
                    minted, calls, outbound, result, retErr, outcome, lay, fmt, dsp,
                    txt, rty, con >>

NextHash == HashFirst \/ HashSecond

SpecHash == InitHash /\ [][NextHash]_vars

(* ------------- concurrent ExecuteAction calls on one Client ------------ *)
\* the calls running on the Client, each in its own goroutine
ConCalls == 1..MaxCalls

\* one access of a call to a field of the shared Client
Access(call, field, kind) == [call |-> call, field |-> field, kind |-> kind]

\* the Client after NewClient (c.bot is nil, written 0), every call at its entry
InitConcurrent ==
    /\ impl \in Impls
    /\ pc = "idle"
    /\ action = IdleAction
    /\ hasSaver = FALSE
    /\ clock = 0
    /\ botReady = FALSE
    /\ method = ""
    /\ markup = NoMarkup
    /\ minted = <<>>
    /\ calls = <<>>
    /\ outbound = <<>>
    /\ result = NoResult
    /\ retErr = NoError
    /\ outcome = "none"
    /\ lay = LayIdle
    /\ fmt = FmtIdle
    /\ dsp = DspIdle
    /\ hsh = HshIdle
    /\ txt = TxtIdle
    /\ rty = RtyIdle
    /\ con = [phase |-> "run", bot |-> 0,
              pc |-> [ p \in ConCalls |-> "start" ],
              made |-> [ p \in ConCalls |-> FALSE ],
              used |-> [ p \in ConCalls |-> 0 ],
              acc |-> {}]

ConStep(next) ==
    /\ con' = next
    /\ UNCHANGED << impl, pc, action, hasSaver, clock, botReady, method, markup,
                    minted, calls, outbound, result, retErr, outcome, lay, fmt, dsp,
                    hsh, txt, rty >>

\* client.go:70 `if c.bot != nil { return nil }`
InitBotCheck(p) ==
    /\ impl = "bot"
    /\ con.phase = "run"
    /\ con.pc[p] = "start"
    /\ ConStep([con EXCEPT !.pc[p] = IF con.bot # 0 THEN "use" ELSE "create",
                           !.acc = @ \cup { Access(p, "bot", "read") }])

\* client.go:74-77 tgbotapi.NewBotAPIWithClient(c.token, ..., c.httpClient)
InitBotCreate(p) ==
    /\ impl = "bot"
    /\ con.phase = "run"
    /\ con.pc[p] = "create"
    /\ \E ok \in BOOLEAN :
         ConStep([con EXCEPT !.pc[p] = IF ok THEN "store" ELSE "done",
                             !.made[p] = ok,
                             !.acc = @ \cup { Access(p, "token", "read"),
                                              Access(p, "httpClient", "read") }])

\* client.go:79-80 `bot.Debug = c.debug; c.bot = bot`
InitBotStore(p) ==
    /\ impl = "bot"
    /\ con.phase = "run"
    /\ con.pc[p] = "store"
    /\ ConStep([con EXCEPT !.pc[p] = "use", !.bot = p,
                           !.acc = @ \cup { Access(p, "debug", "read"),
                                            Access(p, "bot", "write") }])

\* part_002:106-129 c.bot.Request / c.bot.Send: the call works with whatever
\* instance c.bot holds at that moment
UseBot(p) ==
    /\ impl = "bot"
    /\ con.phase = "run"
    /\ con.pc[p] = "use"
    /\ ConStep([con EXCEPT !.pc[p] = "done", !.used[p] = con.bot,
                           !.acc = @ \cup { Access(p, "bot", "read") }])

\* part_001:118 c.Call -> c.request (utils.go:407-461): reads of the Client only
RawRequest(p) ==
    /\ impl = "raw"
    /\ con.phase = "run"
    /\ con.pc[p] \in {"start", "use"}
    /\ ConStep([con EXCEPT !.pc[p] = IF con.pc[p] = "start" THEN "use" ELSE "done",
                           !.acc = @ \cup { Access(p, "baseURL", "read"),
                                            Access(p, "token", "read"),
                                            Access(p, "logger", "read"),
                                            Access(p, "httpClient", "read") }])

NextConcurrent ==
    \E p \in ConCalls :
        InitBotCheck(p) \/ InitBotCreate(p) \/ InitBotStore(p) \/ UseBot(p) \/ RawRequest(p)

SpecConcurrent == InitConcurrent /\ [][NextConcurrent]_vars

(* --------- EscapeMarkdownV2 and StripMarkdown, applied once and twice --- *)
EscapeAlphabet == { specialChars[k] : k \in 1..Len(specialChars) } \cup { BS, "a" }
StripAlphabet == { BT, "|", "_", "*", "~", BS, "a" }

InitText ==
    /\ impl = "bot"
    /\ pc = "idle"
    /\ action = IdleAction
    /\ hasSaver = FALSE
    /\ clock = 0
    /\ botReady = FALSE
    /\ method = ""
    /\ markup = NoMarkup
    /\ minted = <<>>
    /\ calls = <<>>
    /\ outbound = <<>>
    /\ result = NoResult
    /\ retErr = NoError
    /\ outcome = "none"
    /\ lay = LayIdle
    /\ fmt = FmtIdle
    /\ dsp = DspIdle
    /\ hsh = HshIdle
    /\ \/ \E text \in Strings(EscapeAlphabet, MaxEscapeLen) :
            txt = [phase |-> "input", fn |-> "EscapeMarkdownV2", in |-> text,
                   once |-> <<>>, twice |-> <<>>]
       \/ \E text \in Strings(StripAlphabet, MaxStripLen) :
            txt = [phase |-> "input", fn |-> "StripMarkdown", in |-> text,
                   once |-> <<>>, twice |-> <<>>]
    /\ rty = RtyIdle
    /\ con = ConIdle

TextStep(next) ==
    /\ txt' = next
    /\ UNCHANGED << impl, pc, action, hasSaver, clock, botReady, method, markup,
                    minted, calls, outbound, result, retErr, outcome, lay, fmt, dsp,
                    hsh, rty, con >>

\* EscapeMarkdownV2(text)
EscapeOnce ==
    /\ txt.phase = "input"
    /\ txt.fn = "EscapeMarkdownV2"
    /\ TextStep([txt EXCEPT !.phase = "once", !.once = EscapeMarkdownV2(txt.in)])

\* EscapeMarkdownV2 applied to its own result
EscapeTwice ==
    /\ txt.phase = "once"
    /\ txt.fn = "EscapeMarkdownV2"
    /\ TextStep([txt EXCEPT !.phase = "twice", !.twice = EscapeMarkdownV2(txt.once)])

\* StripMarkdown(text)
StripOnce ==
    /\ txt.phase = "input"
    /\ txt.fn = "StripMarkdown"
    /\ TextStep([txt EXCEPT !.phase = "once", !.once = StripMarkdown(txt.in)])

\* StripMarkdown applied to its own result
StripTwice ==
    /\ txt.phase = "once"
    /\ txt.fn = "StripMarkdown"
    /\ TextStep([txt EXCEPT !.phase = "twice", !.twice = StripMarkdown(txt.once)])

NextText == EscapeOnce \/ EscapeTwice \/ StripOnce \/ StripTwice

SpecText == InitText /\ [][NextText]_vars

(* ----------------- sendMethod: the send with its retry loop ------------ *)
\* c.requestWithRetry(ctx, method, params, 3)
maxRetries == 3

\* the methods the typed send helpers of utils.go hand to sendMethod
RetryMethods ==
    { "sendMessage", "sendPhoto", "sendDocument", "sendVideo", "sendAudio", "sendVoice",
      "sendVideoNote", "sendSticker", "sendDice", "sendContact", "sendPoll", "sendVenue",
      "sendLocation", "sendGame", "editMessageText" }

\* what c.request returns: a reply with ok=true, an *APIError with code 429,
\* an *APIError with another code, or an error that is no *APIError
Replies == { "ok", "429", "api_other", "net_err" }

\* if apiErr, ok := err.(*APIError); ok && apiErr.Code == 429
RetriesOnAnyError(reply) == reply # "ok"
RetriesOn(reply) == reply = "429"

InitRetry ==
    /\ impl = "raw"
    /\ pc = "idle"
    /\ action = IdleAction
    /\ hasSaver = FALSE
    /\ clock = 0
    /\ botReady = FALSE
    /\ method = ""
    /\ markup = NoMarkup
    /\ minted = <<>>
    /\ calls = <<>>
    /\ outbound = <<>>
    /\ result = NoResult
    /\ retErr = NoError
    /\ outcome = "none"
    /\ lay = LayIdle
    /\ fmt = FmtIdle
    /\ dsp = DspIdle
    /\ hsh = HshIdle
    /\ txt = TxtIdle
    /\ \E m \in RetryMethods :
         rty = [phase |-> "loop", method |-> m, i |-> 0, replies |-> <<>>,
                slept |-> <<>>, lastErr |-> NoError, err |-> NoError, hasMsg |-> FALSE]
    /\ con = ConIdle

RetryStep(next) ==
    /\ rty' = next
    /\ UNCHANGED << impl, pc, action, hasSaver, clock, botReady, method, markup,
                    minted, calls, outbound, result, retErr, outcome, lay, fmt, dsp,
                    hsh, txt, con >>

\* utils.go:466-483: one pass of the loop body up to the sleep
RetryAttempt ==
    /\ rty.phase = "loop"
    /\ rty.i < maxRetries
    /\ \E reply \in Replies :
         RetryStep(
           IF reply = "ok"
           THEN [rty EXCEPT !.replies = Append(@, reply), !.phase = "unmarshal"]
           ELSE IF RetriesOn(reply)
           THEN [rty EXCEPT !.replies = Append(@, reply), !.lastErr = reply,
                            !.phase = "sleep"]
           ELSE [rty EXCEPT !.replies = Append(@, reply), !.lastErr = reply,
                            !.err = reply, !.phase = "done"])

\* utils.go:477-478: time.Sleep(time.Second * time.Duration(i+1)); continue
RetryBackoff ==
    /\ rty.phase = "sleep"
    /\ RetryStep([rty EXCEPT !.slept = Append(@, rty.i + 1), !.i = rty.i + 1,
                             !.phase = "loop"])

\* utils.go:484: the loop ends, return nil, lastErr
RetryExhausted ==
    /\ rty.phase = "loop"
    /\ ~(rty.i < maxRetries)
    /\ RetryStep([rty EXCEPT !.err = rty.lastErr, !.phase = "done"])

\* utils.go:398-403: sendMethod decodes resp.Result into a Message
RetryUnmarshal ==
    /\ rty.phase = "unmarshal"
    /\ \E ok \in BOOLEAN :
         RetryStep([rty EXCEPT !.hasMsg = ok,
                               !.err = IF ok THEN NoError ELSE "unmarshal",
                               !.phase = "done"])

NextRetry == RetryAttempt \/ RetryBackoff \/ RetryExhausted \/ RetryUnmarshal

SpecRetry == InitRetry /\ [][NextRetry]_vars

(* ====================== properties of the model ======================== *)
SaveOps == {"SaveCallbackData", "SaveCallbackDataBatch"}
SaveIdx == { i \in 1..Len(calls) : calls[i].op \in SaveOps }
SendIdx == { i \in 1..Len(calls) : calls[i].op = "send" }
ChatIdx == { i \in 1..Len(calls) : calls[i].op = "sendChatAction" }

RECURSIVE FlatItems(_)
FlatItems(rows) ==
    IF Len(rows) = 0 THEN <<>> ELSE Head(rows).items \o FlatItems(Tail(rows))

RECURSIVE SavedRecords(_)
\* the records of the successful save calls, in call order
SavedRecords(cs) ==
    IF Len(cs) = 0 THEN <<>>
    ELSE (IF Head(cs).op \in SaveOps /\ Head(cs).ok THEN Head(cs).recs ELSE <<>>)
         \o SavedRecords(Tail(cs))

Sent == outbound # <<>>
SentButtons == FlatItems(outbound[1].markup.rows)
TokensOf(items) == { items[i].cb : i \in 1..Len(items) } \ {NoToken}

\* C1: an Action whose content.stream is neither empty nor "tg_direct" ends
\* with a returned result success=false, no Error, a nil error, and without
\* any CallbackSaver call, chat-action request or main send.
C1_UnsupportedStreamIsSoftNoOp ==
    (pc # "idle" /\ action.stream \notin {"", "tg_direct"}) =>
        /\ pc \in {"prepare", "done"}
        /\ calls = <<>>
        /\ outbound = <<>>
        /\ minted = <<>>
        /\ pc = "done" =>
            /\ outcome = "returned"
            /\ result.success = FALSE
            /\ result.error = NoError
            /\ retErr = NoError

C1_Witness ==
    /\ pc = "done"
    /\ action.stream = "other"
    /\ action.type = "inline_keyboard"
    /\ Len(action.buts) > 0
    /\ hasSaver
    /\ action.sendReaction
    /\ outcome = "returned"

\* C2: when a CallbackSaver call made while persisting minted tokens returns
\* an error, ExecuteAction has returned that error with a result success=false
\* whose Error is that error, and no main send is dispatched.
C2_SaveFailureAborts ==
    (\E i \in SaveIdx : ~calls[i].ok) =>
        /\ pc = "done"
        /\ outcome = "returned"
        /\ result.success = FALSE
        /\ result.error = "save_err"
        /\ retErr = result.error
        /\ outbound = <<>>
        /\ SendIdx = {}
        /\ \A i \in SaveIdx : ~calls[i].ok => i = Len(calls)

C2_Witness ==
    /\ \E i \in SaveIdx : ~calls[i].ok /\ calls[i].op = "SaveCallbackDataBatch"
    /\ action.replyMarkup.present
    /\ retErr = "save_err"

\* C3: with a CallbackSaver, every callback token on the keyboard of a
\* dispatched message was carried by a save call that returned successfully
\* before the main send was issued.
C3_TokensPersistedBeforeSend ==
    (hasSaver /\ Sent) =>
        \A s \in SendIdx : \A tok \in TokensOf(SentButtons) :
            \E i \in SaveIdx :
                /\ i < s
                /\ calls[i].ok
                /\ \E r \in 1..Len(calls[i].recs) : calls[i].recs[r].queryData = tok

C3_Witness ==
    /\ hasSaver
    /\ Sent
    /\ SendIdx # {}
    /\ Cardinality(TokensOf(SentButtons)) >= 2
    /\ result.success

Texts(items) == [ i \in 1..Len(items) |-> items[i].text ]
RowLens(rows) == [ i \in 1..Len(rows) |-> Len(rows[i].items) ]
StreamOk == action.stream \in {"", "tg_direct"}
ButsKeyboard(kind) ==
    /\ StreamOk
    /\ action.type = kind
    /\ Len(action.buts) >= 1
    /\ ~action.replyMarkup.present

\* row lengths of a row-major grid of n entries in c columns
IsRowMajor(lens, n, c) ==
    LET r == Len(lens) IN
    /\ r >= 1
    /\ \A i \in 1..(r - 1) : lens[i] = c
    /\ lens[r] = n - c * (r - 1)
    /\ lens[r] >= 1
    /\ lens[r] <= c

\* C4: with non-empty buts, type inline_keyboard or virtual_keyboard and no
\* replyMarkup, a columnNum that is absent, zero or negative is treated as 3:
\* ExecuteAction returns (no crash, no endless loop) and a dispatched keyboard
\* has 3 columns.
C4_NonPositiveColumnNumIsThree ==
    ( /\ pc = "done"
      /\ ButsKeyboard("inline_keyboard") \/ ButsKeyboard("virtual_keyboard")
      /\ Len(action.columnNum) = 0 \/ action.columnNum[1] <= 0 ) =>
        /\ outcome = "returned"
        /\ Sent => IsRowMajor(RowLens(outbound[1].markup.rows), Len(action.buts), 3)

\* C5: for N >= 1 labels and c >= 1 columns the keyboard built from buts has
\* ceil(N/c) rows, every row but the last has c entries, the last has
\* N - c*(rows-1) entries (1..c), no row is empty, and the rows concatenated
\* are the labels in their order; N=7,c=3 gives [3,3,1] and N=6,c=3 gives [3,3].
C5_LayoutIsRowMajor ==
    (lay.phase = "done" /\ Len(lay.labels) >= 1) =>
        LET n == Len(lay.labels)
            c == lay.cols
            lens == RowLens(lay.rows)
            r == Len(lay.rows)
        IN /\ lay.status = "ok"
           /\ r * c >= n
           /\ (r - 1) * c < n
           /\ IsRowMajor(lens, n, c)
           /\ \A i \in 1..r : lay.rows[i].isList /\ lens[i] >= 1
           /\ Texts(FlatItems(lay.rows)) = lay.labels
           /\ (n = 7 /\ c = 3) => lens = <<3, 3, 1>>
           /\ (n = 6 /\ c = 3) => lens = <<3, 3>>

C5_Witness ==
    /\ lay.phase = "done"
    /\ Len(lay.labels) = 7
    /\ lay.cols = 3
    /\ RowLens(lay.rows) = <<3, 3, 1>>
    /\ lay.kind = "inline_keyboard"

\* C6: for type inline_keyboard, N >= 1 buts, no replyMarkup and a
\* CallbackSaver, the tokens are persisted by exactly one SaveCallbackDataBatch
\* call carrying N records, and no other CallbackSaver call is made.
C6_OneBatchCallOfNRecords ==
    (ButsKeyboard("inline_keyboard") /\ hasSaver /\ (Sent \/ SaveIdx # {})) =>
        /\ Cardinality(SaveIdx) = 1
        /\ \A i \in SaveIdx :
            /\ calls[i].op = "SaveCallbackDataBatch"
            /\ Len(calls[i].recs) = Len(action.buts)

IsCallbackButton(item) == item.isMap /\ ~item.hasUrl

\* C8: when replyMarkup holds an inline_keyboard, every button without a URL
\* gets a minted token in row-major order and one record in a single batch
\* save, a button with a URL gets no token and no record, and the k-th record
\* is bound to content.actions[k] when it exists.
C8_OnlyUrlLessButtonsGetTokens ==
    ( /\ StreamOk
      /\ action.replyMarkup.present
      /\ action.replyMarkup.key = "inline_keyboard"
      /\ action.replyMarkup.isList
      /\ hasSaver
      /\ Sent ) =>
        LET b == SentButtons
            cbs == SelectSeq(b, IsCallbackButton)
            recs == SavedRecords(calls)
        IN /\ \A i \in 1..Len(b) : (b[i].isMap /\ b[i].hasUrl) => b[i].cb = NoToken
           /\ \A i \in 1..Len(cbs) : cbs[i].cb # NoToken
           /\ Len(recs) = Len(cbs)
           /\ \A k \in 1..Len(recs) :
                /\ recs[k].queryData = cbs[k].cb
                /\ recs[k].action = IF k <= Len(action.actions)
                                    THEN action.actions[k] ELSE NoPayload
           /\ Cardinality(SaveIdx) <= 1
           /\ \A i \in SaveIdx : calls[i].op = "SaveCallbackDataBatch"

ClearTokens(mk) ==
    [ mk EXCEPT !.rows =
        [ i \in 1..Len(mk.rows) |->
            Row(mk.rows[i].isList,
                [ j \in 1..Len(mk.rows[i].items) |->
                    [ mk.rows[i].items[j] EXCEPT !.cb = NoToken ] ]) ] ]

\* what a reply markup can be turned into without looking at anything else
DerivedFrom(rm) ==
    {rm}
    \cup (IF rm.key = "inline_keyboard" /\ rm.isList THEN {ConvertInline(rm)} ELSE {})
    \cup (IF rm.key = "keyboard" /\ rm.isList THEN {ConvertKeyboard(rm)} ELSE {})

MapButtons(rm) ==
    { p \in UNION { {<<i, j>> : j \in 1..Len(rm.rows[i].items)} : i \in 1..Len(rm.rows) } :
        rm.rows[p[1]].items[p[2]].isMap }

ButLabelSet == { ButLabels[i] : i \in 1..Len(ButLabels) }

\* C9: when replyMarkup is present the buts-driven layout is not used: for
\* every type, buts, actions and columnNum the attached reply markup is
\* derived from replyMarkup alone, no button comes from buts, and tokens are
\* minted only for buttons of replyMarkup.
C9_ReplyMarkupOverridesButs ==
    (pc # "idle" /\ action.replyMarkup.present) =>
        LET rm == ClearTokens(action.replyMarkup) IN
        /\ outcome \notin {"panic", "diverge"} \/ action.type \in SpecialTypes
        /\ Len(minted) <= Cardinality(MapButtons(rm))
        /\ markup.present => ClearTokens(markup) \in DerivedFrom(rm)
        /\ Sent =>
            /\ outbound[1].markup = markup
            /\ markup.present \/ (impl = "bot" /\ action.type \in SpecialTypes)
            /\ \A i \in 1..Len(SentButtons) : SentButtons[i].text \notin ButLabelSet
            /\ Cardinality(TokensOf(SentButtons)) <= Len(minted)
            /\ TokensOf(SentButtons) \subseteq { minted[k] : k \in 1..Len(minted) }

C9_Witness ==
    /\ Sent
    /\ action.replyMarkup.present
    /\ action.replyMarkup.key = "inline_keyboard"
    /\ action.replyMarkup.isList
    /\ action.type = "inline_keyboard"
    /\ Len(action.buts) >= 2
    /\ Len(action.columnNum) = 1
    /\ action.columnNum[1] = 0
    /\ Len(minted) >= 2
    /\ impl = "bot"

\* C10: for type virtual_keyboard, non-empty buts and no replyMarkup the
\* dispatched reply markup is a reply keyboard of exactly the labels in
\* row-major layout with resize_keyboard and one_time_keyboard true; no token
\* is minted and no CallbackSaver method is called, whatever actions holds.
C10_VirtualKeyboardCarriesNoCallbacks ==
    (pc # "idle" /\ ButsKeyboard("virtual_keyboard")) =>
        /\ minted = <<>>
        /\ SaveIdx = {}
        /\ (pc = "done" /\ ColNum(action) >= 1 /\ retErr # "init_err") => Sent
        /\ Sent =>
            LET m == outbound[1].markup IN
            /\ m.present
            /\ m.key = "keyboard"
            /\ m.resize
            /\ m.oneTime
            /\ Texts(SentButtons) = action.buts
            /\ \A i \in 1..Len(SentButtons) :
                 SentButtons[i].cb = NoToken /\ ~SentButtons[i].hasUrl
            /\ IsRowMajor(RowLens(m.rows), Len(action.buts), ColNum(action))

C10_Witness ==
    /\ ButsKeyboard("virtual_keyboard")
    /\ Sent
    /\ hasSaver
    /\ Len(action.buts) = 3
    /\ Len(action.actions) >= 1
    /\ RowLens(outbound[1].markup.rows) = <<2, 1>>
    /\ result.success

ClaimedSpecialMethod ==
    [ sticker |-> "sendSticker", dice |-> "sendDice", contact |-> "sendContact",
      poll |-> "sendPoll", game |-> "sendGame", venue |-> "sendVenue" ]
ClaimedMediaMethod ==
    [ photo |-> "sendPhoto", document |-> "sendDocument", video |-> "sendVideo",
      audio |-> "sendAudio", voice |-> "sendVoice", video_note |-> "sendVideoNote" ]
IsTheText(p, d) == p.set /\ p.val \in { d.text, FormatMarkdownV2(d.text) }

\* C11: the method of a dispatched request follows content.type and the
\* attachment: sticker, dice, contact, poll, game, venue give sendSticker,
\* sendDice, sendContact, sendPoll, sendGame, sendVenue; for type text,
\* inline_keyboard, virtual_keyboard or empty it is sendMessage with the text
\* as text when there is no attachment or its URL is empty, the matching media
\* send with the text as caption and no text parameter for a non-empty URL and
\* attachment.type photo, document, video, audio, voice or video_note, and
\* sendMessage with the text as text for a non-empty URL and any other type.
C11_MethodFollowsTypeAndAttachment ==
    (dsp.phase = "done" /\ dsp.out.status = "sent") =>
        LET d == dsp.in
            r == dsp.out
            a == d.attachment
        IN /\ d.type \in DOMAIN ClaimedSpecialMethod =>
                r.method = ClaimedSpecialMethod[d.type]
           /\ d.type \in {"text", "inline_keyboard", "virtual_keyboard", ""} =>
                IF ~a.present \/ a.url = ""
                THEN r.method = "sendMessage" /\ IsTheText(r.text, d)
                ELSE IF a.type \in DOMAIN ClaimedMediaMethod
                THEN /\ r.method = ClaimedMediaMethod[a.type]
                     /\ IsTheText(r.caption, d)
                     /\ ~r.text.set
                ELSE r.method = "sendMessage" /\ IsTheText(r.text, d)

RequestsMarkdownV2(d) ==
    d.parseMode.present /\ d.parseMode.isString /\ d.parseMode.val = "MarkdownV2"
Transcoded(d, text) == IF RequestsMarkdownV2(d) THEN FormatMarkdownV2(text) ELSE text

\* C12: the text (sent as text or as caption) and, for polls, the explanation
\* of a dispatched request are FormatMarkdownV2 of content.text and of the
\* explanation when spices.parse_mode equals "MarkdownV2", and are content.text
\* and the explanation unchanged for any other or absent parse_mode.
C12_ParseModeGovernsFormatting ==
    (dsp.phase = "done" /\ dsp.out.status = "sent") =>
        LET d == dsp.in
            r == dsp.out
        IN /\ r.text.set => r.text.val = Transcoded(d, d.text)
           /\ r.caption.set => r.caption.val = Transcoded(d, d.text)
           /\ (d.type = "poll" /\ d.isMap /\ d.explanation.set) =>
                /\ r.explanation.set
                /\ r.explanation.val = Transcoded(d, d.explanation.val)

FailedIdx(ops) == { i \in 1..Len(calls) : calls[i].op \in ops /\ ~calls[i].ok }

\* what ExecuteAction returns after its last persistence or transport call
ResultAfter(call) ==
    IF call.op = "send" /\ call.ok
    THEN [success |-> TRUE, error |-> NoError, messageId |-> 1]
    ELSE IF call.op = "send" THEN [success |-> FALSE, error |-> "send_err", messageId |-> 0]
    ELSE [success |-> FALSE, error |-> "save_err", messageId |-> 0]

\* C13: with sendReaction set, the outcome of the chat-action request does
\* not decide the run: ExecuteAction never returns at the chat action, the
\* main send is dispatched unless a persistence call failed, and the returned
\* result and error are those of the last persistence or transport call,
\* whether the chat-action request failed or succeeded.
C13_ChatActionFailureIsIgnored ==
    (pc = "done" /\ outcome = "returned" /\ action.sendReaction /\ ChatIdx # {}) =>
        LET last == calls[Len(calls)] IN
        /\ last.op # "sendChatAction"
        /\ FailedIdx(SaveOps) = {} => (Sent /\ last.op = "send")
        /\ result = ResultAfter(last)
        /\ retErr = result.error

C13_Witness ==
    /\ pc = "done"
    /\ outcome = "returned"
    /\ FailedIdx({"sendChatAction"}) # {}
    /\ Sent
    /\ result.success
    /\ retErr = NoError

\* C14: with sendReaction set, the chat-action request is immediately followed
\* by the main send: the next external call after it is the send, never a
\* CallbackSaver call, and no run that fired the chat action ends aborted by a
\* persistence failure.
C14_ChatActionImmediatelyBeforeSend ==
    \A i \in ChatIdx :
        /\ i < Len(calls) => calls[i + 1].op = "send"
        /\ \A j \in SaveIdx : j < i
        /\ retErr # "save_err"

\* C15: every call of ExecuteAction returns an ActionResult, for any
\* content.type, attachment present or absent, and any outcome of the
\* persistence and transport calls; success=false without Error is returned
\* exactly when content.stream is unsupported, and a failed persistence or
\* transport call gives success=false with Error set and that error returned.
C15_ResultAlwaysReturned ==
    pc = "done" =>
        /\ outcome = "returned"
        /\ (~result.success /\ result.error = NoError)
               <=> action.stream \notin {"", "tg_direct"}
        /\ FailedIdx(SaveOps \cup {"send"}) # {} =>
               /\ ~result.success
               /\ result.error # NoError
               /\ retErr = result.error

DelimiterChars == { BT, "|", "_", "*", "~", "[" }
RemainingReserved == { "]", "(", ")", ">", "#", "+", "-", "=", "{", "}", ".", "!" }
Chars(text) == { text[k] : k \in 1..Len(text) }

\* text with one backslash put before each character that is in set
RECURSIVE EscapeEach(_, _)
EscapeEach(text, set) ==
    IF Len(text) = 0 THEN <<>>
    ELSE (IF Head(text) \in set THEN << BS, Head(text) >> ELSE << Head(text) >>)
         \o EscapeEach(Tail(text), set)

\* C16 as claimed: for a text with none of the delimiter characters the
\* result is the text with one backslash before each of ] ( ) > # + - = { } . !
\* and every other character, a backslash of the text included, unaltered.
C16_BackslashLeftUnaltered ==
    (fmt.phase = "done" /\ Chars(fmt.runes) \cap DelimiterChars = {}) =>
        fmt.out = EscapeEach(fmt.runes, RemainingReserved)

\* C16: for a text with none of the delimiter characters the result is the
\* text with one backslash put before each of ] ( ) > # + - = { } . ! and
\* before each backslash of the text, every other character unaltered.
C16_ReservedAndBackslashEscaped ==
    (fmt.phase = "done" /\ Chars(fmt.runes) \cap DelimiterChars = {}) =>
        fmt.out = EscapeEach(fmt.runes, RemainingReserved \cup {BS})

C16_Witness ==
    /\ fmt.phase = "done"
    /\ fmt.runes = << "a", BS, "!", ")" >>
    /\ fmt.out = << "a", BS, BS, BS, "!", BS, ")" >>

InnerFive == { BS, BT, ")", "(", ">" }
CodeKinds == { "code_block", "inline_code" }
EscapingKinds == { "spoiler", "underline", "bold", "italic", "strikethrough" }
DelimLen(kind) ==
    IF kind = "code_block" THEN 3
    ELSE IF kind \in {"spoiler", "underline"} THEN 2
    ELSE 1

\* the span matched by the last iteration: its opening delimiter and content
Iterated == fmt.phase # "off" /\ fmt.iters >= 1
SpanDelim == Slice(fmt.runes, fmt.prev, fmt.prev + DelimLen(fmt.branch))
SpanContent ==
    Slice(fmt.runes, fmt.prev + DelimLen(fmt.branch), fmt.i - DelimLen(fmt.branch))

\* C17 as claimed: every matched non-link span, code block and inline code
\* included, is written as its delimiters unescaped around its content with
\* one backslash before each backslash, backtick, ')', '(' and '>' and no
\* other character escaped.
C17_EverySpanEscapesFive ==
    (Iterated /\ fmt.branch \in CodeKinds \cup EscapingKinds) =>
        fmt.emit = SpanDelim \o EscapeEach(SpanContent, InnerFive) \o SpanDelim

\* C17: a matched spoiler, underline, bold, italic or strikethrough span is
\* written as its delimiters unescaped around its content with one backslash
\* before each backslash, backtick, ')', '(' and '>' and no other character
\* escaped; a matched code block or inline code is written unchanged,
\* delimiters and content.
C17_SpansEscapeFiveCodeVerbatim ==
    /\ (Iterated /\ fmt.branch \in EscapingKinds) =>
          fmt.emit = SpanDelim \o EscapeEach(SpanContent, InnerFive) \o SpanDelim
    /\ (Iterated /\ fmt.branch \in CodeKinds) =>
          fmt.emit = SpanDelim \o SpanContent \o SpanDelim

C17_Witness ==
    /\ Iterated
    /\ fmt.branch = "underline"
    /\ fmt.runes = << "_", "_", BS, "(", "_", "_" >>
    /\ fmt.emit = << "_", "_", BS, BS, BS, "(", "_", "_" >>

\* the link matched by the last iteration: [LinkText](LinkUrl)
LinkClose == LinkBracketEnd(fmt.runes, fmt.prev + 1)
LinkText == Slice(fmt.runes, fmt.prev + 1, LinkClose)
LinkUrl == Slice(fmt.runes, LinkClose + 2, fmt.i - 1)

\* the parentheses of url pair up, a backslash making the next character literal
RECURSIVE UrlBalanced(_, _, _)
UrlBalanced(url, k, depth) ==
    IF k > Len(url) THEN depth = 1
    ELSE IF url[k] = "(" THEN UrlBalanced(url, k + 1, depth + 1)
    ELSE IF url[k] = ")" THEN depth - 1 >= 1 /\ UrlBalanced(url, k + 1, depth - 1)
    ELSE IF url[k] = BS THEN k + 1 <= Len(url) /\ UrlBalanced(url, k + 2, depth)
    ELSE UrlBalanced(url, k + 1, depth)

\* C18 as claimed: a matched link keeps its brackets and outer parentheses
\* unescaped, its URL is written with a backslash before each ')' and each
\* backslash only, and its text with a backslash before each backslash,
\* backtick, ')', '(' and '>'.
C18_LinkPartsEscaped ==
    (Iterated /\ fmt.branch = "link") =>
        fmt.emit = << "[" >> \o EscapeEach(LinkText, InnerFive) \o << "]", "(" >>
                     \o EscapeEach(LinkUrl, { ")", BS }) \o << ")" >>

\* C18: a matched link (closing bracket directly followed by '(', parentheses
\* balanced in the URL, a backslash making the next character literal) is
\* written unchanged: brackets and outer parentheses unescaped, and nothing
\* escaped in the link text or in the URL.
C18_LinkVerbatim ==
    (Iterated /\ fmt.branch = "link") =>
        /\ LinkClose # 0 - 1
        /\ At(fmt.runes, LinkClose + 1) = "("
        /\ UrlBalanced(LinkUrl, 1, 1)
        /\ fmt.emit = << "[" >> \o LinkText \o << "]", "(" >> \o LinkUrl \o << ")" >>

C18_Witness ==
    /\ Iterated
    /\ fmt.branch = "link"
    /\ fmt.runes = << "[", "]", "(", "(", ")", ")" >>
    /\ fmt.emit = fmt.runes

SpanPattern(kind) ==
    CASE kind = "code_block" -> << BT, BT, BT >>
      [] kind = "inline_code" -> << BT >>
      [] kind = "spoiler" -> << "|", "|" >>
      [] kind = "underline" -> << "_", "_" >>
      [] kind = "bold" -> << "*" >>
      [] kind = "italic" -> << "_" >>
      [] kind = "strikethrough" -> << "~" >>
      [] OTHER -> << "[" >>

PatternAt(runes, p, pat) ==
    p + Len(pat) <= Len(runes) /\ Slice(runes, p, p + Len(pat)) = pat

\* the delimiter pattern of kind stands at cursor p
OpenerAt(kind, runes, p) ==
    /\ PatternAt(runes, p, SpanPattern(kind))
    /\ kind = "italic" => ~PatternAt(runes, p, << "_", "_" >>)

\* first occurrence of pat from j on, the character after a backslash skipped
RECURSIVE SkipSearch(_, _, _)
SkipSearch(runes, j, pat) ==
    IF j + Len(pat) > Len(runes) THEN 0 - 1
    ELSE IF PatternAt(runes, j, pat) THEN j
    ELSE IF At(runes, j) = BS THEN SkipSearch(runes, j + 2, pat)
    ELSE SkipSearch(runes, j + 1, pat)

Unclosed(kind, runes, p) ==
    IF kind = "link" THEN parseLinkMarkdown(runes, p) = 0 - 1
    ELSE SkipSearch(runes, p + Len(SpanPattern(kind)), SpanPattern(kind)) = 0 - 1

\* C19: for every delimiter kind, when its pattern stands at the cursor and no
\* matching closer follows (the closer search skipping the character after a
\* backslash), the iteration writes a backslash and the opening character and
\* moves the cursor by one; an unclosed triple backtick comes out as three
\* escaped backticks.
C19_UnclosedOpenerEscaped ==
    /\ Iterated =>
          \A kind \in CodeKinds \cup EscapingKinds \cup {"link"} :
              (OpenerAt(kind, fmt.runes, fmt.prev) /\ Unclosed(kind, fmt.runes, fmt.prev)) =>
                  /\ fmt.emit = << BS, At(fmt.runes, fmt.prev) >>
                  /\ fmt.i = fmt.prev + 1
    /\ (fmt.phase = "done" /\ fmt.runes = << BT, BT, BT >>) =>
          fmt.out = << BS, BT, BS, BT, BS, BT >>

\* out is text with zero or more backslashes put in: every character of text
\* occurs in out, in order, and every other character of out is a backslash
RECURSIVE BackslashesInserted(_, _)
BackslashesInserted(text, out) ==
    IF Len(out) = 0 THEN Len(text) = 0
    ELSE \/ /\ Len(text) > 0
            /\ Head(text) = Head(out)
            /\ BackslashesInserted(Tail(text), Tail(out))
         \/ /\ Head(out) = BS
            /\ BackslashesInserted(text, Tail(out))

\* C20: in every run of FormatMarkdownV2 the cursor moves strictly forward in
\* each iteration and never past the end, so there are at most len(text)
\* iterations and the scan ends with the cursor at the end; each iteration
\* writes the characters it passes over, in order, with only backslashes
\* added, so the result is the text with zero or more backslashes inserted.
C20_ScanAdvancesAndKeepsEveryCharacter ==
    fmt.phase # "off" =>
        /\ fmt.i >= 0
        /\ fmt.i <= Len(fmt.runes)
        /\ fmt.iters <= fmt.i
        /\ fmt.iters >= 1 =>
              /\ fmt.i > fmt.prev
              /\ BackslashesInserted(Slice(fmt.runes, fmt.prev, fmt.i), fmt.emit)
        /\ fmt.phase = "done" =>
              /\ fmt.i = Len(fmt.runes)
              /\ BackslashesInserted(fmt.runes, fmt.out)

C20_Witness ==
    /\ fmt.phase = "done"
    /\ fmt.runes = << "*", "(", "*", "!" >>
    /\ fmt.out = << "*", BS, "(", "*", BS, "!" >>
    /\ fmt.iters = 2

\* C21: two calls of GenerateCallbackHash that differ in the clock reading or
\* in the index (or in both) hash different 8-byte inputs.
C21_DifferentCallsDifferentInputs ==
    (hsh.phase = "done" /\ (hsh.t1 # hsh.t2 \/ hsh.i1 # hsh.i2)) => hsh.h1 # hsh.h2

\* C22: the tokens minted for the buttons of one Action, by calls with
\* indexes 0 .. N-1 in sequence at non-decreasing clock readings, are pairwise
\* distinct.
C22_TokensOfOneActionDistinct ==
    \A i \in 1..Len(minted), j \in 1..Len(minted) : i # j => minted[i] # minted[j]

\* C23: concurrent ExecuteAction calls on one Client share no mutable state:
\* no call writes a Client field that another call reads or writes.
C23_NoSharedMutableState ==
    \A a \in con.acc, b \in con.acc :
        (a.call # b.call /\ a.field = b.field) => (a.kind = "read" /\ b.kind = "read")

\* the 18 characters the plain escape primitive reserves
Reserved18 ==
    { "_", "*", "[", "]", "(", ")", "~", BT, ">", "#", "+", "-", "=", "|", "{", "}",
      ".", "!" }

\* text with two backslashes put before each character that is in set
RECURSIVE EscapeEachTwice(_, _)
EscapeEachTwice(text, set) ==
    IF Len(text) = 0 THEN <<>>
    ELSE (IF Head(text) \in set THEN << BS, BS, Head(text) >> ELSE << Head(text) >>)
         \o EscapeEachTwice(Tail(text), set)

\* C24: one application of EscapeMarkdownV2 puts exactly one backslash before
\* each of the 18 reserved characters and leaves every other character, the
\* backslash included, as it is; a second application puts a second backslash
\* before each originally reserved character, so for a text with a reserved
\* character the two results differ (the primitive is not idempotent).
C24_EscapeTwiceDoublesBackslashes ==
    (txt.fn = "EscapeMarkdownV2" /\ txt.phase \in {"once", "twice"}) =>
        /\ txt.once = EscapeEach(txt.in, Reserved18)
        /\ txt.phase = "twice" =>
              /\ txt.twice = EscapeEachTwice(txt.in, Reserved18)
              /\ (Chars(txt.in) \cap Reserved18 # {}) => txt.twice # txt.once

C24_Witness ==
    /\ txt.fn = "EscapeMarkdownV2"
    /\ txt.phase = "twice"
    /\ txt.in = << BS, "_", "." >>
    /\ txt.once = << BS, BS, "_", BS, "." >>
    /\ txt.twice = << BS, BS, BS, "_", BS, BS, "." >>

\* the delimiters and the escape character of the markup
StripTargets ==
    { << BT, BT, BT >>, << "|", "|" >>, << "_", "_" >>, << "*" >>, << "_" >>,
      << "~" >>, << BT >>, << BS >> }

Occurs(pat, text) ==
    \E k \in 1..(Len(text) - Len(pat) + 1) : SubSeq(text, k, k + Len(pat) - 1) = pat

\* C25: the result of StripMarkdown contains none of the delimiters (triple
\* backtick, ||, __, *, _, ~, backtick) and no backslash, and applying
\* StripMarkdown to the result changes nothing.
C25_StripRemovesEveryDelimiter ==
    (txt.fn = "StripMarkdown" /\ txt.phase \in {"once", "twice"}) =>
        /\ \A pat \in StripTargets : ~Occurs(pat, txt.once)
        /\ txt.phase = "twice" => txt.twice = txt.once

\* C26: sendMethod issues at most 3 requests, issues a further request only
\* after the previous one failed with code 429, returns at once on the first
\* success or on the first error that is not a 429, and after three 429
\* failures returns the last rate-limit error.
C26_RetriesOnlyOnRateLimit ==
    rty.phase # "off" =>
        LET n == Len(rty.replies) IN
        /\ n <= 3
        /\ \A k \in 2..n : rty.replies[k - 1] = "429"
        /\ rty.phase = "done" =>
              /\ n >= 1
              /\ rty.replies[n] = "ok" => rty.err \in {NoError, "unmarshal"}
              /\ rty.replies[n] \in {"api_other", "net_err"} =>
                    (rty.err = rty.replies[n] /\ ~rty.hasMsg)
              /\ rty.replies[n] = "429" => (n = 3 /\ rty.err = "429" /\ ~rty.hasMsg)
              /\ rty.hasMsg <=> rty.err = NoError

C26_Witness ==
    /\ rty.phase = "done"
    /\ rty.replies = << "429", "429", "429" >>
    /\ rty.err = "429"

\* the methods of the dispatch table
DispatchTable ==
    { "sendSticker", "sendDice", "sendContact", "sendPoll", "sendGame", "sendVenue",
      "sendMessage", "sendPhoto", "sendDocument", "sendVideo", "sendAudio",
      "sendVideoNote", "sendVoice" }

\* C27: a result with success=true is returned only if one main send request,
\* with a method of the dispatch table, was handed to the transport and
\* succeeded; nothing is reported as sent for an Action for which no valid
\* request was dispatched.
C27_SuccessMeansOneValidSend ==
    (dsp.phase = "done" /\ dsp.returned /\ dsp.success) =>
        /\ dsp.out.status = "sent"
        /\ dsp.out.method \in DispatchTable
        /\ dsp.replyOk

\* C30: the chat_id of every dispatched request equals action.user.tgId,
\* whatever keys the spices bag contains.
C30_ChatIdIsTgId ==
    (dsp.phase = "done" /\ dsp.out.status = "sent") => dsp.chatId = << TgID >>

\* C28: ExecuteAction has no side effect on its input: from the call to the
\* return, on success or on failure, no step changes the caller's Action
\* (content.replyMarkup with its button maps, content.buts, content.actions).
C28_InputUnchanged == [][pc # "idle" => action' = action]_vars

\* the failed per-button save calls
FailedSingleSaves ==
    { i \in 1..Len(calls) : calls[i].op = "SaveCallbackData" /\ ~calls[i].ok }

\* C29: in the per-button save path, when the SaveCallbackData call for button
\* k fails, no save is attempted for a later button, no reply markup is
\* attached, no chat action and no send are dispatched, the action fails with
\* the error, and the k records saved before stay persisted: the calls made
\* are the successful saves of the buttons 0 .. k-1 in index order followed by
\* the failed one, with k between 0 and N-1.
C29_PerButtonSaveStopsAtFailure ==
    \A i \in FailedSingleSaves :
        /\ i = Len(calls)
        /\ i <= Len(action.buts)
        /\ \A j \in 1..i :
              /\ calls[j].op = "SaveCallbackData"
              /\ calls[j].ok <=> j < i
              /\ calls[j].recs = << CallbackRecord(action, minted[j], j - 1) >>
        /\ Len(SavedRecords(calls)) = i - 1
        /\ markup = NoMarkup
        /\ outbound = <<>>
        /\ ChatIdx = {}
        /\ SendIdx = {}
        /\ pc = "done"
        /\ outcome = "returned"
        /\ ~result.success
        /\ result.error = "save_err"
        /\ retErr = "save_err"

C29_Witness ==
    /\ impl = "raw"
    /\ Len(action.buts) = 3
    /\ action.sendReaction
    /\ Len(calls) = 3
    /\ FailedSingleSaves = {3}
    /\ Len(SavedRecords(calls)) = 2

====
